------------------------- MODULE MCServicesProofs -------------------------
(***************************************************************************)
(* The services of server.js, side by side: what is proved of each alone   *)
(* holds of their composition, whichever one takes its steps.              *)
(***************************************************************************)
EXTENDS MCServices, RecordProofs, ServiceProofs

ServicesIInv ==
  /\ SetupIInv /\ ProvidersIInv /\ OperationsIInv /\ EditorsIInv /\ GraphIInv
  /\ RuleEngineIInv /\ IntegrationsIInv /\ ToolsIInv /\ AlertsIInv /\ DeskIInv /\ SessionsIInv

\* The invariants of the services hold at first, each by its own lemma.
LEMMA ServicesInitInv == MCInit => ServicesIInv
<1> SUFFICES ASSUME MCInit PROVE ServicesIInv
  OBVIOUS
<1>1. /\ SetupInit /\ ProvidersInit /\ OperationsInit /\ EditorsInit /\ GraphInit
      /\ RuleEngineInit /\ IntegrationsInit /\ ToolsInit /\ AlertsInit /\ DeskInit
      /\ SessionsInit
  BY DEF MCInit
<1> QED
  BY <1>1, InitSetup, ProvidersInitInv, OperationsInitInv, EditorsInitInv, GraphInitInv,
     RuleEngineInitInv, IntegrationsInitInv, ToolsInitInv, AlertsInitInv, DeskInitInv,
     SessionsInitInv
     DEF ServicesIInv

\* A step of the composition is for each service a step of its own or a stutter.
LEMMA ServicesStep ==
  ASSUME [MCNext]_<<services, component>>
  PROVE  /\ [SetupNext]_svars /\ [ProvidersNext]_prvars /\ [OperationsNext]_opvars
         /\ [EditorsNext]_edvars /\ [GraphNext]_grvars /\ [RuleEngineNext]_revars
         /\ [IntegrationsNext]_syvars /\ [ToolsNext]_tovars /\ [AlertsNext]_alvars
         /\ [DeskNext]_devars /\ [SessionsNext]_sevars
<1>1. CASE UNCHANGED <<services, component>>
  BY <1>1 DEF services
<1>2. CASE MCNext
  BY <1>2 DEF MCNext
<1> QED BY <1>1, <1>2

\* So every service keeps its invariant.
LEMMA ServicesNextInv == ServicesIInv /\ [MCNext]_<<services, component>> => ServicesIInv'
<1> SUFFICES ASSUME ServicesIInv, [MCNext]_<<services, component>> PROVE ServicesIInv'
  OBVIOUS
<1>1. /\ SetupIInv /\ ProvidersIInv /\ OperationsIInv /\ EditorsIInv /\ GraphIInv
      /\ RuleEngineIInv /\ IntegrationsIInv /\ ToolsIInv /\ AlertsIInv /\ DeskIInv
      /\ SessionsIInv
  BY DEF ServicesIInv
<1>2. SetupIInv' /\ ProvidersIInv' /\ OperationsIInv' /\ EditorsIInv' /\ GraphIInv'
  BY <1>1, ServicesStep, NextSetup, ProvidersNextInv, OperationsNextInv, EditorsNextInv,
     GraphNextInv
<1>3. RuleEngineIInv' /\ IntegrationsIInv' /\ ToolsIInv'
  BY <1>1, ServicesStep, RuleEngineNextInv, IntegrationsNextInv, ToolsNextInv
<1>4. AlertsIInv' /\ DeskIInv' /\ SessionsIInv'
  BY <1>1, ServicesStep, AlertsNextInv, DeskNextInv, SessionsNextInv
<1> QED BY <1>2, <1>3, <1>4 DEF ServicesIInv

\* Whichever service takes its steps, each keeps the invariant its own proofs found.
THEOREM ServicesInvariance == MCSpec => []ServicesIInv
  BY ServicesInitInv, ServicesNextInv, PTL DEF MCSpec

\* The tables and the processes of every service hold what their code can put there.
THEOREM ServicesTypeCorrect == MCSpec => []ServicesTypeOK
<1>1. ServicesIInv => ServicesTypeOK
  BY DEF ServicesIInv, ServicesTypeOK, SetupIInv, ProvidersIInv, OperationsIInv, EditorsIInv,
         GraphIInv, RuleEngineIInv, IntegrationsIInv, ToolsIInv, AlertsIInv, DeskIInv,
         SessionsIInv
<1> QED BY <1>1, ServicesInvariance, PTL

\* The composition is, to each service, a run of that service: to check them side by side
\* shows no behaviour that one of them alone has not.
THEOREM ServicesCompose ==
  MCSpec => /\ SetupSpec /\ ProvidersSpec /\ OperationsSpec /\ EditorsSpec /\ GraphSpec
            /\ RuleEngineSpec /\ IntegrationsSpec /\ ToolsSpec /\ AlertsSpec /\ DeskSpec
            /\ SessionsSpec
<1>1. MCInit => /\ SetupInit /\ ProvidersInit /\ OperationsInit /\ EditorsInit /\ GraphInit
                /\ RuleEngineInit /\ IntegrationsInit /\ ToolsInit /\ AlertsInit /\ DeskInit
                /\ SessionsInit
  BY DEF MCInit
<1> QED
  BY <1>1, ServicesStep, PTL
     DEF MCSpec, SetupSpec, ProvidersSpec, OperationsSpec, EditorsSpec, GraphSpec,
         RuleEngineSpec, IntegrationsSpec, ToolsSpec, AlertsSpec, DeskSpec, SessionsSpec

\* So what was proved of each service, and is checked of their composition, holds of it for
\* every value of the constants of all.
THEOREM ServicesStaySound ==
  MCSpec => [](/\ ActivationIsWhole /\ AnnouncedStaysActive /\ ProviderRowsSound /\ KeyedOnce
               /\ NoEditLost /\ ValidationIsExact /\ SimulationIsOrdered /\ RunsInOrder
               /\ SyncIsAttested /\ OnlyWhatWasShown /\ OneAlertPerRule /\ WindowIsTrue
               /\ LoginsBounded)
  BY ServicesCompose, WholeActivation, ActivationIsFinal, RowsAgree, KeyIsOneExecution,
     EditsAreKept, ExactValidation, OrderedSimulation, ActionsInOrder, AttestedSync,
     ShownThenRun, OneActiveAlert, TextsAreInTime, LoginsStayBounded, PTL
=============================================================================
