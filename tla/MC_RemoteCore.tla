---------------------------- MODULE MC_RemoteCore ----------------------------
(* Two governance chains, and up to three calls that follow or overlap each *)
(* other. Of methods that run alike, one is enough.                         *)
EXTENDS RemoteCore

CONSTANTS a, b, c1, c2, c3

Ask(methods, chains) == [asks |-> methods \X chains, after |-> {}]
After(methods, chains, calls) == [asks |-> methods \X chains, after |-> calls]
Nothing == [asks |-> {}, after |-> {}]
Scene(first, second, third) == [c \in {c1, c2, c3} |->
    IF c = c1 THEN first ELSE IF c = c2 THEN second ELSE third]

NeedTheCore == {"waitInitialized", "waitGovernanceInitialized", "waitPaymentsInitialized",
    "getRegistries", "getProposals", "getBlockNumber", "getLinks", "getGatewayEntryList",
    "deauthorizeGateway"}
NeedNothing == {"initialized", "getGatewayRegistrationInfo", "closeGatewayIFrame", "pullFunds",
    "getInitializationStatus"}

\* Two initializations of two chains, and what the first leaves to the next.
Overlapping == Scene(Ask({"initializeRegistries"}, {b}), Ask({"initializeRegistries"}, {None}),
                     Nothing)
Racing == Scene(Ask({"initializeGovernance"}, {b}), Ask({"initializeForChainId"}, {b}),
                Nothing)
Channel == Scene(Ask({"initializePayments"}, {None}), After({"createStateChannel"}, {None}, {c1}),
                 After({"initializeRegistries"}, {b}, {c2}))
NextChain == Scene(Ask({"initializeRegistries"}, {None}),
                   After({"initializeForChainId"}, {b}, {c1}),
                   After({"waitRegistriesInitialized"}, {b}, {c1}))

\* Every kind of call, after an initialization and without one.
Used == Scene(Ask({"initialize"}, {None}), After(NeedTheCore, {None}, {c1}), Nothing)
Early == Scene(Ask(NeedTheCore \cup NeedNothing \cup {"switchProviderNetwork"}, {None}),
               Ask({"waitGovernanceInitialized"}, {b}), Nothing)

MCScenes == {Overlapping, Racing, Channel, NextChain, Used, Early}

BothChains == {Scene(Ask({"initializeRegistries"}, {None}),
                     After({"initializeRegistries"}, {b}, {c1}), Nothing)}
=============================================================================
