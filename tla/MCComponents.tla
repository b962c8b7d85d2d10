---------------------------- MODULE MCComponents ----------------------------
(***************************************************************************)
(* The safety of the services of MCServices on larger instances, and of    *)
(* the native libraries: a behaviour belongs to one component and the      *)
(* others stay as they were initialised.                                   *)
(***************************************************************************)
EXTENDS MCServices, ManifestStore, Commission, CanLink, CanCodec, CanProbe,
        FeedbackClock, PortalServer

nativeVars == <<storeVars, commissionVars, linkVars, codecVars, probeVars, clockVars,
                serverVars>>

-----------------------------------------------------------------------------
(* The inputs.                                                             *)

\* Manifests: two of the same revision, and a newer one.
Manifests == [rev: {1}, dig: Digest] \cup {[rev |-> 2, dig |-> "a"]}

\* Recipes: one that is qualified and one that is not.
ARecipe(retreat, ok) ==
    [minimum_contact_samples |-> 2, contact_dwell |-> 2, maximum_approach_time |-> 4,
     maximum_retreat_time |-> 3, minimum_contact_travel |-> 1, maximum_approach_travel |-> 3,
     retreat_distance |-> retreat, repeatability_tolerance |-> 1,
     maximum_contact_energy |-> 2, start_min |-> 0, start_max |-> 1, qualified |-> ok]
Recipes == {ARecipe(2, TRUE), ARecipe(2, FALSE)}

\* Manual options: one reference with and without a known sign, two references
\* that turn with the model and against it.
AnOption(count, sign, model) ==
    [reference_count |-> count, minimum_samples |-> 2, stability_dwell |-> 1,
     maximum_spread |-> 1, minimum_separation |-> 1, scale_error_percent |-> 50,
     known_sign |-> sign, model |-> model]
Options == {AnOption(1, -1, <<1, 1>>), AnOption(2, 0, <<0, 2>>), AnOption(2, 1, <<3, 1>>),
            AnOption(1, 0, <<0, 0>>)}
Angles == 0 .. 4
Gaps == {1}

\* Two motor types with their MIT spans, set-points inside them and at their ends.
Devices == {[send |-> 1, receive |-> 17, pmax |-> 100, vmax |-> 360, tmax |-> 432],
            [send |-> 2, receive |-> 18, pmax |-> 100, vmax |-> 80, tmax |-> 224]}
Setpoints == {[p |-> 100, v |-> -77, kp |-> 4000, kd |-> 3, t |-> 13],
              [p |-> -37, v |-> 80, kp |-> 1, kd |-> 40, t |-> -224]}
Grips == {[opening |-> o, speed |-> v, torque |-> t] : o \in {0, 3, 7}, v \in {0, 13}, t \in {1, 50}}
Hands == {[closed |-> 4, open |-> -9, maximum |-> 7], [closed |-> -4, open |-> 9, maximum |-> 7]}

\* The motors of a commissioned manifest and one that is not in it.
Motor(n) == [send |-> n, receive |-> 16 + n, motor |-> n]
Motors2 == <<Motor(1), Motor(2)>>
Motor3 == Motor(3)

\* The ROS clock is set back by more than the tolerance.
BackStep == {-3}

\* The lanes' capacities, scaled down from 16, 16, 4 and 8.
LaneAdmits == [static |-> 1, api |-> 1, urgent |-> 2, stream |-> 1]
LaneThreads == [l \in Lanes |-> 1]

\* Interchangeable things share their model values: one of the components moves.
Interchangeable == Permutations(Goal)

-----------------------------------------------------------------------------

\* A component that is not checked starts in one of its initial states; the two
\* motors that are probed are disabled, enabled and in fault in turn.
Begins ==
    /\ part # "recipe" => recipe = CHOOSE r \in Recipe : TRUE
    /\ part # "manual" => manual.opt = CHOOSE o \in ManualOption : TRUE
    /\ part # "link" => link
    /\ power \in IF part = "probe" THEN {<<0, 0>>, <<0, 1>>, <<14, 0>>} ELSE {<<0, 0>>}
    /\ part # "server" => asks = [c \in Conn |-> CHOOSE k \in ConnKinds : TRUE]

ComponentsInit ==
    /\ ServicesInit
    /\ StoreInit /\ CommissionInit /\ LinkInit /\ CodecInit /\ ProbeInit /\ ClockInit /\ ServerInit
    /\ Begins

NativeNext ==
    \/ /\ part = "store" /\ StoreNext
       /\ UNCHANGED <<commissionVars, linkVars, codecVars, probeVars, clockVars, serverVars>>
    \/ /\ \/ part = "recipe" /\ RecipeStep
          \/ part = "manual" /\ ManualStep
       /\ UNCHANGED <<storeVars, linkVars, codecVars, probeVars, clockVars, serverVars>>
    \/ /\ part = "link" /\ LinkNext
       /\ UNCHANGED <<storeVars, commissionVars, codecVars, probeVars, clockVars, serverVars>>
    \/ /\ part = "codec" /\ CodecNext
       /\ UNCHANGED <<storeVars, commissionVars, linkVars, probeVars, clockVars, serverVars>>
    \/ /\ part = "probe" /\ ProbeNext
       /\ UNCHANGED <<storeVars, commissionVars, linkVars, codecVars, clockVars, serverVars>>
    \/ /\ part = "clock" /\ ClockNext
       /\ UNCHANGED <<storeVars, commissionVars, linkVars, codecVars, probeVars, serverVars>>
    \/ /\ part = "server" /\ ServerNext
       /\ UNCHANGED <<storeVars, commissionVars, linkVars, codecVars, probeVars, clockVars>>

ComponentsNext ==
    \/ ServicesNext /\ UNCHANGED nativeVars
    \/ NativeNext /\ UNCHANGED <<part, servicesVars>>

ComponentsSpec ==
    ComponentsInit /\ [][ComponentsNext]_<<part, servicesVars, nativeVars>>

\* The component that moves keeps its type.
ComponentsTypeOK ==
    /\ part = "session" => SessionTypeOK
    /\ part \in {"plans", "leases"} => RuntimeTypeOK
    /\ part = "portal" => PortalTypeOK
    /\ part = "node" => NodeTypeOK
    /\ part = "transport" => TransportTypeOK
    /\ part = "store" => StoreTypeOK
    /\ part \in {"recipe", "manual"} => CommissionTypeOK
    /\ part = "link" => LinkTypeOK
    /\ part = "codec" => CodecTypeOK
    /\ part = "probe" => ProbeTypeOK
    /\ part = "clock" => ClockTypeOK
    /\ part = "server" => ServerTypeOK
=============================================================================
