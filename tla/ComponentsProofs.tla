-------------------------- MODULE ComponentsProofs --------------------------
(***************************************************************************)
(* The composition of MCComponents: each component runs beside the others  *)
(* as it runs alone, so the theorems about the components are theorems     *)
(* about the composition.  A step of the composition is, for every         *)
(* component, one of its own steps or a stutter.                           *)
(***************************************************************************)
EXTENDS MCComponents, SessionProofs, RuntimeProofs, StoreProofs, TransportProofs,
        OperatorProofs, TLAPS

ComponentsStep == [ComponentsNext]_<<part, servicesVars, nativeVars>>

-----------------------------------------------------------------------------
(* The services.                                                           *)

\* A step of a native library leaves the services alone, one of a service the
\* libraries.
LEMMA OneMoves ==
    ASSUME ComponentsStep
    PROVE  \/ ServicesNext /\ UNCHANGED nativeVars
           \/ NativeNext /\ UNCHANGED servicesVars
           \/ UNCHANGED <<servicesVars, nativeVars>>
  BY DEF ComponentsStep, ComponentsNext

LEMMA SessionRuns ==
    ASSUME ComponentsStep
    PROVE  [SessionNext]_sessionVars
  BY OneMoves DEF ServicesNext, SessionPart, RuntimePart, PortalPart, NodePart, TransportPart,
                  servicesVars

\* With plans or with calibration sessions, the runtime takes steps of its own.
LEMMA RuntimeRuns ==
    ASSUME ComponentsStep
    PROVE  [RuntimeNext]_runtimeVars
  BY OneMoves DEF ServicesNext, SessionPart, RuntimePart, PortalPart, NodePart, TransportPart,
                  servicesVars, RuntimeNext

LEMMA PortalRuns ==
    ASSUME ComponentsStep
    PROVE  [PortalNext]_portalVars
  BY OneMoves DEF ServicesNext, SessionPart, RuntimePart, PortalPart, NodePart, TransportPart,
                  servicesVars

LEMMA NodeRuns ==
    ASSUME ComponentsStep
    PROVE  [NodeNext]_nodeVars
  BY OneMoves DEF ServicesNext, SessionPart, RuntimePart, PortalPart, NodePart, TransportPart,
                  servicesVars

LEMMA TransportRuns ==
    ASSUME ComponentsStep
    PROVE  [TransportNext]_transportVars
  BY OneMoves DEF ServicesNext, SessionPart, RuntimePart, PortalPart, NodePart, TransportPart,
                  servicesVars

-----------------------------------------------------------------------------
(* The native libraries.                                                   *)

LEMMA StoreRuns ==
    ASSUME ComponentsStep
    PROVE  [StoreNext]_storeVars
  BY OneMoves DEF NativeNext, nativeVars

LEMMA CommissionRuns ==
    ASSUME ComponentsStep
    PROVE  [CommissionNext]_commissionVars
  BY OneMoves DEF NativeNext, nativeVars, CommissionNext

LEMMA LinkRuns ==
    ASSUME ComponentsStep
    PROVE  [LinkNext]_linkVars
  BY OneMoves DEF NativeNext, nativeVars

LEMMA CodecRuns ==
    ASSUME ComponentsStep
    PROVE  [CodecNext]_codecVars
  BY OneMoves DEF NativeNext, nativeVars

LEMMA ProbeRuns ==
    ASSUME ComponentsStep
    PROVE  [ProbeNext]_probeVars
  BY OneMoves DEF NativeNext, nativeVars

LEMMA ClockRuns ==
    ASSUME ComponentsStep
    PROVE  [ClockNext]_clockVars
  BY OneMoves DEF NativeNext, nativeVars

LEMMA ServerRuns ==
    ASSUME ComponentsStep
    PROVE  [ServerNext]_serverVars
  BY OneMoves DEF NativeNext, nativeVars
-----------------------------------------------------------------------------
(* A behaviour of the composition is a behaviour of every component.       *)

LEMMA ComponentsStarts ==
    ComponentsInit => /\ SessionInit /\ RuntimeInit /\ PortalInit /\ NodeInit /\ TransportInit
                      /\ StoreInit /\ CommissionInit /\ LinkInit /\ CodecInit /\ ProbeInit
                      /\ ClockInit /\ ServerInit
  BY DEF ComponentsInit, ServicesInit

\* What MCComponents runs beside each other are the services and the libraries as
\* they are specified: their specifications with nothing left out.
THEOREM ServicesRunAlone ==
    ComponentsSpec => SessionSpec /\ RuntimeSpec /\ PortalSpec /\ NodeSpec /\ TransportSpec
<1>1. ComponentsStep => /\ [SessionNext]_sessionVars /\ [RuntimeNext]_runtimeVars
                        /\ [PortalNext]_portalVars /\ [NodeNext]_nodeVars
                        /\ [TransportNext]_transportVars
    BY SessionRuns, RuntimeRuns, PortalRuns, NodeRuns, TransportRuns
<1>. QED
    BY <1>1, ComponentsStarts, PTL
       DEF ComponentsSpec, ComponentsStep, SessionSpec, RuntimeSpec, PortalSpec, NodeSpec,
           TransportSpec

THEOREM LibrariesRunAlone ==
    ComponentsSpec => /\ StoreSpec /\ CommissionSpec /\ LinkSpec /\ CodecSpec /\ ProbeSpec
                      /\ ClockSpec /\ ServerSpec
<1>1. ComponentsStep => /\ [StoreNext]_storeVars /\ [CommissionNext]_commissionVars
                        /\ [LinkNext]_linkVars /\ [CodecNext]_codecVars
                        /\ [ProbeNext]_probeVars /\ [ClockNext]_clockVars
                        /\ [ServerNext]_serverVars
    BY StoreRuns, CommissionRuns, LinkRuns, CodecRuns, ProbeRuns, ClockRuns, ServerRuns
<1>. QED
    BY <1>1, ComponentsStarts, PTL
       DEF ComponentsSpec, ComponentsStep, StoreSpec, CommissionSpec, LinkSpec, CodecSpec,
           ProbeSpec, ClockSpec, ServerSpec

-----------------------------------------------------------------------------
(* The invariants of the composition.                                      *)

\* Whichever component moves, all of them keep their types, and so does the one that
\* ComponentsTypeOK asks about.
THEOREM ComponentsTypes == ComponentsSpec => []ComponentsTypeOK
<1>1. /\ SessionTypeOK /\ RuntimeTypeOK /\ PortalTypeOK /\ NodeTypeOK /\ TransportTypeOK
      /\ StoreTypeOK /\ CommissionTypeOK /\ LinkTypeOK /\ CodecTypeOK /\ ProbeTypeOK
      /\ ClockTypeOK /\ ServerTypeOK
      => ComponentsTypeOK
    BY DEF ComponentsTypeOK
<1>. QED
    BY <1>1, ServicesRunAlone, LibrariesRunAlone, SessionTypes, RuntimeTypes, PortalTypes,
       NodeTypes, TransportTypeCorrect, StoreTypes, CommissionTypes, LinkTypes, CodecTypes,
       ProbeTypes, ClockTypes, ServerTypes, PTL

\* The services keep their safety properties beside each other: an answer ends its
\* goal and no command is forgotten, a plan is run on the authority it was made under,
\* the portal has one command and undoes no stop, the node accounts for its goals and
\* tells of no cancel without a reason, and the transport's calls are safe.
THEOREM ServicesAreSafe ==
    ComponentsSpec => /\ []SessionIsSound /\ []PlanAuthorityIsSound /\ []PortalIsSound
                      /\ []GoalsAreAccounted /\ []TransportIsSound
  BY ServicesRunAlone, SessionSound, PlanAuthoritySound, PortalSound, GoalsAccounted,
     TransportSound, PTL

\* The libraries keep theirs: the manifest can be recovered, commissioning is safe,
\* the link, the codec and the probe tell the truth, the clocks agree and the server
\* is bounded.
THEOREM LibrariesAreSafe ==
    ComponentsSpec => /\ []PublishedIsRecoverable /\ []CommissionSafe /\ []LinkIsTold
                      /\ []CodecIsExact /\ []ProbeIsHonest /\ []ClocksAgree /\ []ServerIsBounded
  BY LibrariesRunAlone, RecoverySound, CommissioningIsSafe, LinkIsToldAsItIs,
     CodecMeansWhatItSays, ProbeTellsTheTruth, ClocksSound, ServerBounded, PTL

\* The session of the composition answers its goals as the contract has it, and its
\* store never replaces a manifest by an older one.
THEOREM StepsAreSafe == ComponentsSpec => HonoursContract /\ ManifestNeverRegresses
  BY ServicesRunAlone, LibrariesRunAlone, SessionHonoursContract, NeverRegresses, PTL
=============================================================================
