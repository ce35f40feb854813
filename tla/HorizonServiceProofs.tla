------------------------- MODULE HorizonServiceProofs -------------------------
(***************************************************************************)
(* The reconcile loop of HorizonReconcile implements HorizonService, for   *)
(* every value of its constants, and what HorizonService promises holds of *)
(* it.  The invariant Guarded of HorizonReconcileProofs does most of the   *)
(* work; Vouching adds what the published Ready condition needs.           *)
(***************************************************************************)
EXTENDS HorizonReconcileProofs

-----------------------------------------------------------------------------
(* The additional invariant.                                                 *)

\* The pass was started for an object it may work on.
ForWork == before.life = "live" /\ before.finalizer

\* An object can only be deleting behind the finalizer; a pass that does no work
\* does not find the object Ready.
Vouching ==
  /\ cr.life = "deleting" => cr.finalizer
  /\ pc # "idle" /\ ~ForWork =>
       /\ instance.status.conds["Ready"] # "True"
       /\ pc \in {"patch", "delete"} => /\ instance.status.conds["Ready"] = "Unknown"
                                        /\ instance.status.conds["Input"] = "Unknown"

\* What a pass starts with: all it is going to find out is still unknown.
LEMMA GetConds ==
  ASSUME Typed, Get
  PROVE  /\ instance'.status.conds["Ready"] = "Unknown"
         /\ instance'.status.conds["Input"] = "Unknown"
  <1> DEFINE conds == InitConds(seen.status.conds)
  <1>1. seen \in Horizons /\ seen.status \in Statuses
    BY DEF Typed, TypeOK, Horizons
  <1>2. conds["Ready"] = "Unknown" /\ conds["Input"] = "Unknown"
    BY DEF InitConds, CondTypes, ListedConds
  <1>3. instance' = [seen EXCEPT !.status.conds = InitConds(@),
                                 !.status.observed = seen.generation,
                                 !.finalizer = @ \/ AddsFinalizer(seen)]
    BY DEF Get, GoOn
  <1> HIDE DEF conds
  <1>4. instance'.status.conds = conds
    BY <1>1, <1>3 DEF Horizons, Statuses, conds
  <1> QED BY <1>2, <1>4

\* An overall state is not True while something is unknown.
LEMMA MirrorUnknown ==
  ASSUME NEW conds, conds["Input"] = "Unknown"
  PROVE  Mirror(conds) # "True"
  BY DEF Mirror, AllSubConditionIsTrue, SubConds, CondTypes, ListedConds

LEMMA MirroredUnknown ==
  ASSUME NEW i \in Horizons, i.status.conds["Ready"] = "Unknown",
         i.status.conds["Input"] = "Unknown"
  PROVE  Mirrored(i).status.conds["Ready"] # "True"
  <1> DEFINE s == Mirror(i.status.conds)
  <1>1. s # "True"
    BY MirrorUnknown
  <1> HIDE DEF s
  <1>2. Mirrored(i) = Mark(i, "Ready", s)
    BY DEF Mirrored, s
  <1>3. i.status \in Statuses /\ i.status.conds \in [CondTypes -> CondStatus]
    BY DEF Horizons, Statuses
  <1>4. Mark(i, "Ready", s).status.conds = [i.status.conds EXCEPT !["Ready"] = s]
    BY <1>3 DEF Mark, Horizons, Statuses
  <1> QED BY <1>1, <1>2, <1>3, <1>4 DEF CondTypes, ListedConds

\* PatchMetadata hands on the object with its overall condition.
LEMMA PatchMetadataMirrors ==
  ASSUME PatchMetadata
  PROVE  /\ pc = "patch"
         /\ \/ pc' = "idle"
            \/ pc' = "status" /\ instance' = Mirrored(instance) /\ before' = before
  BY DEF PatchMetadata, GoOn, EndPass

LEMMA InitVouching == Init => Vouching
  BY DEF Init, Vouching

LEMMA NextVouching ==
  ASSUME Typed, Guarded, Vouching, [Next]_vars
  PROVE  Vouching'
  <1> USE DEF Vouching, ForWork
  <1>1. CASE UNCHANGED <<cr, seen, protected, pc, before, instance>>
    BY <1>1
  <1>2. CASE Get
    BY <1>2, GetStep, GetConds
  <1>3. CASE ReconcileDelete
    BY <1>3, ReconcileDeleteStep
  <1>4. CASE Stage
    <2>1. pc \in WorkStages /\ pc # "idle" /\ UNCHANGED <<cr, before>>
      BY <1>4, StageLemma DEF Advance, WorkStages
    <2> QED BY <2>1 DEF Guarded, PassGuarded
  <1>5. CASE PatchMetadata
    <2>1. cr'.life = "deleting" => cr'.finalizer
      <3>1. CASE cr' = cr
        BY <3>1
      <3>2. CASE cr' = WithFinalizer(cr, instance.finalizer)
        <4>1. pc # "idle"
          BY <1>5, PatchMetadataStep
        <4> QED BY <3>2, <4>1, FinalizerLemma, Generations DEF Typed, TypeOK
      <3> QED BY <1>5, <3>1, <3>2, PatchMetadataStep
    <2>2. CASE pc' = "idle"
      BY <2>1, <2>2
    <2>3. CASE pc' = "status" /\ instance' = Mirrored(instance) /\ before' = before
      <3>1. pc = "patch" /\ instance \in Horizons
        BY <1>5, PatchMetadataMirrors DEF Typed, TypeOK
      <3>2. ~ForWork => instance'.status.conds["Ready"] # "True"
        BY <2>3, <3>1, MirroredUnknown
      <3> QED BY <2>1, <2>3, <3>2
    <2> QED BY <1>5, <2>2, <2>3, PatchMetadataMirrors
  <1>6. CASE PatchStatus
    BY <1>6, PatchStatusStep
  <1>7. CASE DeliverHorizon
    BY <1>7, DeliverHorizonStep
  <1>8. CASE EditSpec
    BY <1>8, EditSpecStep
  <1>9. CASE DeleteHorizon
    BY <1>9, DeleteHorizonStep
  <1>10. CASE Crash
    BY <1>10, CrashStep
  <1> QED
    BY <1>1, <1>2, <1>3, <1>4, <1>5, <1>6, <1>7, <1>8, <1>9, <1>10, NextCases,
       StutterLemma, GetNotFoundStep, ElsewhereStep

LEMMA AlwaysVouching == Spec => [](Typed /\ Guarded /\ Vouching)
  BY InitTyped, InitGuarded, InitVouching, NextTyped, NextGuarded, NextVouching, PTL DEF Spec

-----------------------------------------------------------------------------
(* Every step maps to a step of HorizonService or to none.                   *)

\* The types of what HorizonService sees.
LEMMA ViewTyped ==
  ASSUME Typed
  PROVE  /\ cr.life \in {"live", "deleting", "gone"}
         /\ cr.generation \in Nat /\ cr.status.observed \in Nat
         /\ cr.finalizer \in BOOLEAN
         /\ pc # "idle" => /\ before.finalizer \in BOOLEAN /\ instance.finalizer \in BOOLEAN
                           /\ before.life \in {"live", "deleting", "gone"}
  BY DEF Typed, TypeOK, Horizons, Statuses

LEMMA OwnedStays == UNCHANGED ownedVars => Owned' = Owned
  BY DEF ownedVars, Owned

\* A step that leaves the object alone makes something behind its finalizer, or
\* makes nothing new.
LEMMA QuietStep ==
  ASSUME UNCHANGED cr, Owned' => Owned \/ (cr.life # "gone" /\ cr.finalizer = TRUE)
  PROVE  [Service!Next]_(Service!vars)
  <1>1. CASE Owned' = Owned
    BY <1>1 DEF Service!vars, Published
  <1>2. CASE Owned' /\ ~Owned
    <2>1. Service!Build
      BY <1>2 DEF Service!Build, Published
    <2> QED BY <2>1 DEF Service!Next
  <1>3. CASE ~Owned' /\ Owned
    <2>1. Service!Vanish
      BY <1>3 DEF Service!Vanish, Published
    <2> QED BY <2>1 DEF Service!Next
  <1>4. Owned \in BOOLEAN /\ Owned' \in BOOLEAN
    BY DEF Owned
  <1> QED BY <1>1, <1>2, <1>3, <1>4

\* Nothing appears elsewhere: controllers and users only take away.
LEMMA ElsewhereOwns ==
  ASSUME Elsewhere
  PROVE  Owned' => Owned
  <1>1. CASE TimerFires \/ ChangeInput \/ ChangeTopology
    BY <1>1, OwnedStays DEF TimerFires, ChangeInput, ChangeTopology
  <1>2. CASE \E k \in OwnedKinds : DeliverOwned(k)
    BY <1>2, OwnedStays DEF DeliverOwned
  <1>3. CASE RollOut
    BY <1>3 DEF RollOut, Owned
  <1>4. CASE PodFails
    BY <1>4 DEF PodFails, Owned
  <1>5. CASE CollectGarbage
    BY <1>5 DEF CollectGarbage, Owned
  <1>6. CASE LoseOwned
    BY <1>6 DEF LoseOwned, Owned
  <1> QED BY <1>1, <1>2, <1>3, <1>4, <1>5, <1>6 DEF Elsewhere

LEMMA MetadataRefines ==
  ASSUME Typed, Guarded, Vouching, PatchMetadata
  PROVE  [Service!Next]_(Service!vars)
  <1>1. pc = "patch" /\ Owned' = Owned
    BY OwnedStays DEF PatchMetadata
  <1>2. CASE cr' = cr
    BY <1>1, <1>2, QuietStep
  <1>3. CASE /\ instance.finalizer # before.finalizer /\ cr.life # "gone"
             /\ cr' = WithFinalizer(cr, instance.finalizer)
    <2> DEFINE f == instance.finalizer
    <2>1. cr \in Horizons /\ f \in BOOLEAN
      BY <1>1, ViewTyped DEF Typed, TypeOK
    <2>2. /\ cr'.finalizer = f /\ cr'.generation = cr.generation
          /\ cr'.status = cr.status
          /\ cr'.life = IF cr.life = "deleting" /\ ~f THEN "gone" ELSE cr.life
      BY <1>3, <2>1, FinalizerLemma
    <2>3. ~f => cr.life = "deleting"
      BY <1>1, <1>3, ViewTyped DEF Guarded, PassGuarded, FinalizerStays
    <2>4. Published' = Published /\ cr'.status.observed = cr.status.observed
      BY <2>2 DEF Published
    <2>5. CASE f = cr.finalizer
      <3>1. f
        BY <2>1, <2>3, <2>5 DEF Vouching
      <3> QED BY <1>1, <2>2, <2>4, <2>5, <3>1 DEF Service!vars
    <2>6. CASE f /\ ~cr.finalizer
      <3>1. cr.life = "live"
        BY <1>3, <2>6, ViewTyped DEF Vouching
      <3>2. Service!Guard
        BY <1>1, <2>1, <2>2, <2>4, <2>6, <3>1, ViewTyped DEF Service!Guard
      <3> QED BY <3>2 DEF Service!Next
    <2>7. CASE ~f /\ cr.finalizer
      <3>1. Service!Release
        BY <1>1, <2>1, <2>2, <2>3, <2>4, <2>7 DEF Service!Release
      <3> QED BY <3>1 DEF Service!Next
    <2> QED BY <2>1, <2>5, <2>6, <2>7, ViewTyped
  <1> QED BY <1>2, <1>3, PatchMetadataStep

\* What a status patch publishes comes from the pass or stays as it was.
LEMMA StatusWritten ==
  ASSUME Typed, PatchStatus
  PROVE  \/ cr' = cr
         \/ /\ cr.life # "gone"
            /\ cr'.status.conds \in {cr.status.conds, instance.status.conds}
  <1> DEFINE status == PatchedStatus(before.status, instance.status, cr.status)
  <1>1. cr \in Horizons /\ pc = "status"
    BY DEF Typed, TypeOK, PatchStatus
  <1>2. status.conds \in {cr.status.conds, instance.status.conds}
    BY DEF PatchedStatus, Patched
  <1>3. \/ cr' = cr
        \/ /\ cr.life # "gone"
           /\ cr' = [cr EXCEPT !.status =
                       PatchedStatus(before.status, instance.status, @)]
    BY DEF PatchStatus
  <1>4. ASSUME cr' = [cr EXCEPT !.status =
                        PatchedStatus(before.status, instance.status, @)]
        PROVE  cr'.status = status
    BY <1>1, <1>4 DEF Horizons
  <1> HIDE DEF status
  <1> QED BY <1>2, <1>3, <1>4

LEMMA StatusRefines ==
  ASSUME Typed, Guarded, Vouching, [Next]_vars, PatchStatus
  PROVE  [Service!Next]_(Service!vars)
  <1>1. /\ pc = "status" /\ Owned' = Owned
        /\ cr'.life = cr.life /\ cr'.finalizer = cr.finalizer
        /\ cr'.generation = cr.generation
    BY PatchStatusStep, OwnedStays DEF PatchStatus
  <1>2. CASE cr' = cr
    BY <1>1, <1>2, QuietStep
  <1>3. CASE /\ cr.life # "gone"
             /\ cr'.status.conds \in {cr.status.conds, instance.status.conds}
    <2>1. cr'.status.observed \in cr.status.observed .. cr.generation
      <3>1. cr'.status.observed \in Nat
        BY PatchStatusStep, ViewTyped DEF Typed, TypeOK, Horizons, Statuses
      <3> QED BY <1>1, <3>1, ObservedStep, ViewTyped
    <2>2. Published' = "True" => Published = "True" \/ cr.finalizer
      <3>1. CASE cr'.status.conds = cr.status.conds
        BY <3>1 DEF Published
      <3>2. CASE cr'.status.conds = instance.status.conds
        <4>1. Published' = "True" => ForWork
          BY <1>1, <3>2 DEF Published, Vouching
        <4>2. ForWork => cr.finalizer
          BY <1>1 DEF ForWork, Guarded, PassGuarded
        <4> QED BY <4>1, <4>2
      <3> QED BY <1>3, <3>1, <3>2
    <2>3. Service!Publish
      BY <1>1, <1>3, <2>1, <2>2 DEF Service!Publish
    <2> QED BY <2>3 DEF Service!Next
  <1> QED BY <1>2, <1>3, StatusWritten

LEMMA RequestsRefine ==
  ASSUME Typed, EditSpec \/ DeleteHorizon
  PROVE  [Service!Next]_(Service!vars)
  <1>1. CASE EditSpec
    <2>1. Published' = Published /\ Owned' = Owned /\ cr.life # "gone"
      BY <1>1, EditSpecStep, OwnedStays DEF EditSpec, Published
    <2>2. Service!Edit
      BY <1>1, <2>1, EditSpecStep DEF Service!Edit
    <2> QED BY <2>2 DEF Service!Next
  <1>2. CASE DeleteHorizon
    <2>1. Published' = Published /\ Owned' = Owned /\ cr.life = "live"
      BY <1>2, DeleteHorizonStep, OwnedStays DEF DeleteHorizon, Published
    <2>2. Service!RequestDeletion
      BY <1>2, <2>1, DeleteHorizonStep DEF Service!RequestDeletion
    <2> QED BY <2>2 DEF Service!Next
  <1> QED BY <1>1, <1>2

LEMMA StepRefines ==
  ASSUME Typed, Guarded, Vouching, [Next]_vars
  PROVE  [Service!Next]_(Service!vars)
  <1>1. CASE GetNotFound \/ Get \/ ReconcileDelete \/ DeliverHorizon \/ UNCHANGED vars
    <2>1. UNCHANGED <<cr, ownedVars>>
      BY <1>1 DEF GetNotFound, Get, ReconcileDelete, DeliverHorizon, Unowned, Fixed, vars
    <2>2. UNCHANGED cr /\ Owned' = Owned
      BY <2>1, OwnedStays
    <2> QED BY <2>2, QuietStep
  <1>2. CASE Crash
    <2>1. UNCHANGED cr /\ Owned' = Owned
      BY <1>2 DEF Crash, ownedVars, Owned
    <2> QED BY <2>1, QuietStep
  <1>3. CASE Stage
    <2>1. pc \in WorkStages /\ pc # "idle" /\ UNCHANGED cr
      BY <1>3, StageLemma DEF Advance, WorkStages
    <2>2. cr.life # "gone" /\ cr.finalizer
      BY <2>1 DEF Guarded, PassGuarded
    <2> QED BY <2>1, <2>2, ViewTyped, QuietStep
  <1>4. CASE Elsewhere
    <2>1. UNCHANGED cr /\ (Owned' => Owned)
      BY <1>4, ElsewhereStep, ElsewhereOwns
    <2> QED BY <2>1, QuietStep
  <1> QED
    BY <1>1, <1>2, <1>3, <1>4, MetadataRefines, StatusRefines, RequestsRefine, NextCases

LEMMA InitRefines == Init => Service!Init
  BY DEF Init, NewStatus, NoConds, CondTypes, ListedConds, Service!Init, Published, Owned

-----------------------------------------------------------------------------
(* The theorems.                                                             *)

\* Seen from outside, the reconcile loop does what HorizonService allows,
\* however stale its copies, whatever fails and whenever it is restarted.
THEOREM Refinement == Spec => ImplementsService
  <1>1. Typed /\ Guarded /\ Vouching /\ [Next]_vars => [Service!Next]_(Service!vars)
    BY StepRefines
  <1> QED BY <1>1, InitRefines, AlwaysVouching, PTL DEF Spec, Service!Spec, ImplementsService

\* The promise alone is enough to rely on the guard: what exists for an object,
\* and what is said to be Ready, is behind the finalizer.
LEMMA ServiceGuards ==
  ASSUME Service!NothingUnguarded, Service!ReadyIsGuarded, [Service!Next]_(Service!vars)
  PROVE  Service!NothingUnguarded' /\ Service!ReadyIsGuarded'
  BY DEF Service!NothingUnguarded, Service!ReadyIsGuarded, Service!Next, Service!vars,
     Service!Edit, Service!RequestDeletion, Service!Guard, Service!Build,
     Service!Publish, Service!Release, Service!Vanish

\* Nothing exists for a living object that has no finalizer, and none is Ready:
\* whatever a deletion finds can be cleaned up.
THEOREM NothingEscapes == Spec => [](Service!NothingUnguarded /\ Service!ReadyIsGuarded)
  <1>1. Service!Init => Service!NothingUnguarded /\ Service!ReadyIsGuarded
    BY DEF Service!Init, Service!NothingUnguarded, Service!ReadyIsGuarded
  <1>2. Service!NothingUnguarded /\ Service!ReadyIsGuarded /\ [Service!Next]_(Service!vars)
          => Service!NothingUnguarded' /\ Service!ReadyIsGuarded'
    BY ServiceGuards
  <1> QED BY <1>1, <1>2, Refinement, PTL DEF ImplementsService, Service!Spec

\* Once the object and all that was made for it are gone, nothing is made again:
\* no pass, however stale the copy it works on, works for an object that is gone.
THEOREM NothingComesBack ==
  Spec => [][cr.life = "gone" /\ ~Owned => cr'.life = "gone" /\ ~Owned']_vars
  <1>1. [Service!Next]_(Service!vars)
          => [cr.life = "gone" /\ ~Owned => cr'.life = "gone" /\ ~Owned']_vars
    BY DEF Service!Next, Service!vars, Service!Edit, Service!RequestDeletion, Service!Guard,
       Service!Build, Service!Publish, Service!Release, Service!Vanish
  <1> QED BY <1>1, Refinement, PTL DEF ImplementsService, Service!Spec
=============================================================================
