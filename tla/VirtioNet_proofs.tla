------------------------- MODULE VirtioNet_proofs ---------------------------
(***************************************************************************)
(* Proofs about VirtioNetDxe as a whole, for every behaviour of NetSpec:   *)
(* any number of sessions, each brought up and torn down on any path, with *)
(* the client, the two data-path functions and the host in any order.      *)
(*                                                                         *)
(* NetInv is inductive.  It ties the invariants of the three parts to the  *)
(* life cycle: between the sessions the rings are as VirtioRingInit leaves *)
(* them and nothing is mapped, so that the state Initialize hands to the   *)
(* data path is the initial state of VirtioNetTx and of VirtioNetRx, from  *)
(* which TxInv and RxInv hold for as long as the device runs.              *)
(***************************************************************************)
EXTENDS VirtioNet, VirtioNetQueues_proofs, TLAPS

-----------------------------------------------------------------------------
(***************************************************************************)
(* The life cycle, for every behaviour of LifeSpec: however the calls fail *)
(* and in whatever order the interface is started, initialized, shut down, *)
(* stopped, bound and unbound.  LifeInv is inductive; the lemmas show its  *)
(* parts preserved, one step of each proof per action.                     *)
(***************************************************************************)

\* Before the driver is bound the account is empty.
LEMMA InitEstablishes == LifeInit => LifeInv
  <1> SUFFICES ASSUME LifeInit PROVE LifeInv
    OBVIOUS
  <1>1. modern \in BOOLEAN /\ exited \in BOOLEAN
    BY DEF LifeInit
  <1>2. LifeTypeOK
    BY <1>1 DEF LifeInit, LifeTypeOK, Labels, Queues, StatusBits
  <1>3. HeldIs({})
    BY DEF LifeInit, HeldIs
  <1> QED
    BY <1>2, <1>3 DEF LifeInit, LifeInv, StateAt, BindHeldAt, RingHeldAt, AuxHeldAt,
       StatusAt, PostedAt, BindLabels, InitLabels, ShutdownLabels, RingLabels, RunLabels

(***************************************************************************)
(* Every action keeps the control state, the status register and the       *)
(* account of published queues within their types.                         *)
(***************************************************************************)
LEMMA ControlTyped ==
  ASSUME LifeInv, LifeNext
  PROVE  /\ snpState' \in {"absent", "Stopped", "Started", "Initialized"}
         /\ pc' \in Labels
         /\ q' \in Queues
         /\ devStatus' \subseteq StatusBits
         /\ posted' \subseteq Queues
  <1> USE DEF LifeInv, LifeTypeOK, Labels, Queues, StatusBits
  <1>1. CASE BindingStart
    BY <1>1 DEF BindingStart, Enter, Rest
  <1>2. CASE BindingStartSteps
    <2>1. snpState' \in {"absent", "Stopped", "Started", "Initialized"} /\ q' \in Queues
      BY <1>2 DEF BindingStartSteps, Try, Undo, Rest
    <2>2. pc' \in Labels
      BY <1>2 DEF BindingStartSteps, Try, Undo, Rest
    <2>3. devStatus' \subseteq StatusBits /\ posted' \subseteq Queues
      BY <1>2 DEF BindingStartSteps, Try, Undo, Rest
    <2> QED
      BY <2>1, <2>2, <2>3
  <1>3. CASE BindingStartOpenChild
    BY <1>3 DEF BindingStartOpenChild
  <1>4. CASE SnpPopulateSteps
    <2>1. snpState' \in {"absent", "Stopped", "Started", "Initialized"} /\ q' \in Queues
      BY <1>4 DEF SnpPopulateSteps, Try, Undo, Rest
    <2>2. pc' \in Labels
      BY <1>4 DEF SnpPopulateSteps, Try, Undo, Rest
    <2>3. devStatus' \subseteq StatusBits /\ posted' \subseteq Queues
      BY <1>4 DEF SnpPopulateSteps, Try, Undo, Rest
    <2> QED
      BY <2>1, <2>2, <2>3
  <1>5. CASE GetFeaturesSteps
    <2>1. snpState' \in {"absent", "Stopped", "Started", "Initialized"} /\ q' \in Queues
      BY <1>5 DEF GetFeaturesSteps, FeatReset, SetBit, Try, WriteStatus, Rest
    <2>2. pc' \in Labels
      BY <1>5 DEF GetFeaturesSteps, FeatReset, SetBit, Try, WriteStatus, Rest
    <2>3. devStatus' \subseteq StatusBits /\ posted' \subseteq Queues
      BY <1>5 DEF GetFeaturesSteps, FeatReset, SetBit, Try, WriteStatus, Rest
    <2> QED
      BY <2>1, <2>2, <2>3
  <1>6. CASE BindingStopChild
    BY <1>6 DEF BindingStopChild
  <1>7. CASE BindingStopParent
    BY <1>7 DEF BindingStopParent
  <1>8. CASE SnpStart
    BY <1>8 DEF SnpStart, SetState
  <1>9. CASE SnpStop
    BY <1>9 DEF SnpStop, SetState
  <1>10. CASE Initialize
    BY <1>10 DEF Initialize, Enter, Rest
  <1>11. CASE InitPrologueSteps
    <2>1. snpState' \in {"absent", "Stopped", "Started", "Initialized"} /\ q' \in Queues
      BY <1>11 DEF InitPrologueSteps, SetBit, Try, Rest
    <2>2. pc' \in Labels
      BY <1>11 DEF InitPrologueSteps, SetBit, Try, Rest
    <2>3. devStatus' \subseteq StatusBits /\ posted' \subseteq Queues
      BY <1>11 DEF InitPrologueSteps, SetBit, Try, Rest
    <2> QED
      BY <2>1, <2>2, <2>3
  <1>12. CASE InitRingCalls
    BY <1>12 DEF InitRingCalls, InitRingCall, Goto
  <1>13. CASE InitRingSteps
    <2>1. snpState' \in {"absent", "Stopped", "Started", "Initialized"} /\ q' \in Queues
      BY <1>13 DEF InitRingSteps, Try, Undo, InitRingError, InitRingReturn,
         Rest
    <2>2. pc' \in Labels
      BY <1>13 DEF InitRingSteps, Try, Undo, InitRingError, InitRingReturn,
         Rest
    <2>3. devStatus' \subseteq StatusBits /\ posted' \subseteq Queues
      BY <1>13 DEF InitRingSteps, Try, Undo, InitRingError, InitRingReturn,
         Rest
    <2> QED
      BY <2>1, <2>2, <2>3
  <1>14. CASE InitDriverOkSteps
    <2>1. snpState' \in {"absent", "Stopped", "Started", "Initialized"} /\ q' \in Queues
      BY <1>14 DEF InitDriverOkSteps, Try, SetBit, Rest
    <2>2. pc' \in Labels
      BY <1>14 DEF InitDriverOkSteps, Try, SetBit, Rest
    <2>3. devStatus' \subseteq StatusBits /\ posted' \subseteq Queues
      BY <1>14 DEF InitDriverOkSteps, Try, SetBit, Rest
    <2> QED
      BY <2>1, <2>2, <2>3
  <1>15. CASE InitTxSteps
    <2>1. snpState' \in {"absent", "Stopped", "Started", "Initialized"} /\ q' \in Queues
      BY <1>15 DEF InitTxSteps, Try, Undo, Rest
    <2>2. pc' \in Labels
      BY <1>15 DEF InitTxSteps, Try, Undo, Rest
    <2>3. devStatus' \subseteq StatusBits /\ posted' \subseteq Queues
      BY <1>15 DEF InitTxSteps, Try, Undo, Rest
    <2> QED
      BY <2>1, <2>2, <2>3
  <1>16. CASE InitRxSteps
    <2>1. snpState' \in {"absent", "Stopped", "Started", "Initialized"} /\ q' \in Queues
      BY <1>16 DEF InitRxSteps, Try, Undo, WriteStatus, Rest
    <2>2. pc' \in Labels
      BY <1>16 DEF InitRxSteps, Try, Undo, WriteStatus, Rest
    <2>3. devStatus' \subseteq StatusBits /\ posted' \subseteq Queues
      BY <1>16 DEF InitRxSteps, Try, Undo, WriteStatus, Rest
    <2> QED
      BY <2>1, <2>2, <2>3
  <1>17. CASE InitRxPost
    BY <1>17 DEF InitRxPost, Goto
  <1>18. CASE InitRxKick
    BY <1>18 DEF InitRxKick
  <1>19. CASE InitCleanupSteps
    <2>1. snpState' \in {"absent", "Stopped", "Started", "Initialized"} /\ q' \in Queues
      BY <1>19 DEF InitCleanupSteps, UninitRing, Undo, WriteStatus, Rest
    <2>2. pc' \in Labels
      BY <1>19 DEF InitCleanupSteps, UninitRing, Undo, WriteStatus, Rest
    <2>3. devStatus' \subseteq StatusBits /\ posted' \subseteq Queues
      BY <1>19 DEF InitCleanupSteps, UninitRing, Undo, WriteStatus, Rest
    <2> QED
      BY <2>1, <2>2, <2>3
  <1>20. CASE Shutdown
    BY <1>20 DEF Shutdown, Enter, Rest
  <1>21. CASE ShutdownSteps
    <2>1. snpState' \in {"absent", "Stopped", "Started", "Initialized"} /\ q' \in Queues
      BY <1>21 DEF ShutdownSteps, UninitRing, Undo, WriteStatus, Rest
    <2>2. pc' \in Labels
      BY <1>21 DEF ShutdownSteps, UninitRing, Undo, WriteStatus, Rest
    <2>3. devStatus' \subseteq StatusBits /\ posted' \subseteq Queues
      BY <1>21 DEF ShutdownSteps, UninitRing, Undo, WriteStatus, Rest
    <2> QED
      BY <2>1, <2>2, <2>3
  <1>22. CASE ShutdownDone
    BY <1>22 DEF ShutdownDone, Goto
  <1>23. CASE TransmitPosts
    BY <1>23 DEF TransmitPosts
  <1>24. CASE ExitBoot
    BY <1>24 DEF ExitBoot
  <1>25. CASE OsRuns
    BY <1>25 DEF OsRuns, lifeVars
  <1> QED
    BY <1>1, <1>2, <1>3, <1>4, <1>5, <1>6, <1>7, <1>8, <1>9, <1>10, <1>11,
       <1>12, <1>13, <1>14, <1>15, <1>16, <1>17, <1>18, <1>19, <1>20, <1>21,
       <1>22, <1>23, <1>24, <1>25 DEF LifeNext, BindingSteps, InitSteps

\* No action makes the two flags anything but Booleans.
LEMMA FlagsTyped ==
  ASSUME LifeInv, LifeNext
  PROVE  modern' \in BOOLEAN /\ exited' \in BOOLEAN
  <1> USE DEF LifeInv, LifeTypeOK
  <1>1. CASE BindingStart
    BY <1>1 DEF BindingStart, Enter, Rest
  <1>2. CASE BindingStartSteps
    BY <1>2 DEF BindingStartSteps, Try, Undo, Rest
  <1>3. CASE BindingStartOpenChild
    BY <1>3 DEF BindingStartOpenChild
  <1>4. CASE SnpPopulateSteps
    BY <1>4 DEF SnpPopulateSteps, Try, Undo, Rest
  <1>5. CASE GetFeaturesSteps
    BY <1>5 DEF GetFeaturesSteps, FeatReset, SetBit, Try, WriteStatus, Rest
  <1>6. CASE BindingStopChild
    BY <1>6 DEF BindingStopChild
  <1>7. CASE BindingStopParent
    BY <1>7 DEF BindingStopParent
  <1>8. CASE SnpStart
    BY <1>8 DEF SnpStart, SetState
  <1>9. CASE SnpStop
    BY <1>9 DEF SnpStop, SetState
  <1>10. CASE Initialize
    BY <1>10 DEF Initialize, Enter, Rest
  <1>11. CASE InitPrologueSteps
    BY <1>11 DEF InitPrologueSteps, SetBit, Try, Rest
  <1>12. CASE InitRingCalls
    BY <1>12 DEF InitRingCalls, InitRingCall, Goto
  <1>13. CASE InitRingSteps
    BY <1>13 DEF InitRingSteps, Try, Undo, InitRingError, InitRingReturn, Rest
  <1>14. CASE InitDriverOkSteps
    BY <1>14 DEF InitDriverOkSteps, Try, SetBit, Rest
  <1>15. CASE InitTxSteps
    BY <1>15 DEF InitTxSteps, Try, Undo, Rest
  <1>16. CASE InitRxSteps
    BY <1>16 DEF InitRxSteps, Try, Undo, WriteStatus, Rest
  <1>17. CASE InitRxPost
    BY <1>17 DEF InitRxPost, Goto
  <1>18. CASE InitRxKick
    BY <1>18 DEF InitRxKick
  <1>19. CASE InitCleanupSteps
    BY <1>19 DEF InitCleanupSteps, UninitRing, Undo, WriteStatus, Rest
  <1>20. CASE Shutdown
    BY <1>20 DEF Shutdown, Enter, Rest
  <1>21. CASE ShutdownSteps
    BY <1>21 DEF ShutdownSteps, UninitRing, Undo, WriteStatus, Rest
  <1>22. CASE ShutdownDone
    BY <1>22 DEF ShutdownDone, Goto
  <1>23. CASE TransmitPosts
    BY <1>23 DEF TransmitPosts
  <1>24. CASE ExitBoot
    BY <1>24 DEF ExitBoot
  <1>25. CASE OsRuns
    BY <1>25 DEF OsRuns, lifeVars
  <1> QED
    BY <1>1, <1>2, <1>3, <1>4, <1>5, <1>6, <1>7, <1>8, <1>9, <1>10, <1>11,
       <1>12, <1>13, <1>14, <1>15, <1>16, <1>17, <1>18, <1>19, <1>20, <1>21,
       <1>22, <1>23, <1>24, <1>25 DEF LifeNext, BindingSteps, InitSteps

(***************************************************************************)
(* Every action keeps the account of resources: at each label exactly the  *)
(* resources are held that HeldAt lists, each once.  This is where every   *)
(* goto of the code is matched with the cleanup label it jumps to.         *)
(***************************************************************************)
LEMMA HeldPreserved ==
  ASSUME LifeInv, LifeNext
  PROVE  /\ held' \in [Resources -> 0 .. 1]
         /\ (BindHeldAt /\ RingHeldAt /\ AuxHeldAt)'
  <1> USE DEF LifeInv, LifeTypeOK, Queues, BindHeldAt, RingHeldAt, AuxHeldAt, HeldIs,
              Resources, TrafficResources, BindResources, RingResources, RxRingRes,
              TxAux, RxAux, WithRings
  <1>1. CASE BindingStart
    BY <1>1 DEF BindingStart, Enter, Rest, StateAt, BindLabels, InitLabels,
       ShutdownLabels, RunLabels, RingLabels
  <1>2. CASE BindingStartSteps
    <2>1. held' \in [Resources -> 0 .. 1]
      BY <1>2 DEF BindingStartSteps, Try, Undo, Rest, Acquire, Release
    <2>2. BindHeldAt'
      BY <1>2 DEF StateAt, BindLabels,
          BindingStartSteps, Try, Undo, Rest, Acquire, Release
    <2>3. RingHeldAt'
      BY <1>2 DEF BindingStartSteps, Try, Undo, Rest, Acquire, Release
    <2>4. AuxHeldAt'
      BY <1>2 DEF BindingStartSteps, Try, Undo, Rest, Acquire, Release
    <2> HIDE DEF BindHeldAt, RingHeldAt, AuxHeldAt
    <2> QED
      BY <2>1, <2>2, <2>3, <2>4
  <1>3. CASE BindingStartOpenChild
    BY <1>3 DEF BindingStartOpenChild, Acquire, Release, StateAt, BindLabels,
       InitLabels, ShutdownLabels, RunLabels, RingLabels
  <1>4. CASE SnpPopulateSteps
    BY <1>4 DEF SnpPopulateSteps, Try, Undo, Rest, Acquire, Release
  <1>5. CASE GetFeaturesSteps
    BY <1>5 DEF GetFeaturesSteps, FeatReset, SetBit, Try, WriteStatus, Rest,
       Acquire, Release
  <1>6. CASE BindingStopChild
    BY <1>6 DEF BindingStopChild, Acquire, Release
  <1>7. CASE BindingStopParent
    BY <1>7 DEF BindingStopParent, Acquire, Release
  <1>8. CASE SnpStart
    BY <1>8 DEF SnpStart, SetState
  <1>9. CASE SnpStop
    BY <1>9 DEF SnpStop, SetState
  <1>10. CASE Initialize
    BY <1>10 DEF Initialize, Enter, Rest, StateAt, BindLabels, InitLabels,
       ShutdownLabels, RunLabels, RingLabels
  <1>11. CASE InitPrologueSteps
    <2>1. held' \in [Resources -> 0 .. 1]
      BY <1>11 DEF InitPrologueSteps, SetBit, Try, Rest, Acquire, Release
    <2>2. BindHeldAt'
      BY <1>11 DEF StateAt, InitLabels, RingLabels, RunLabels,
          InitPrologueSteps, SetBit, Try, Rest, Acquire, Release
    <2>3. RingHeldAt'
      BY <1>11 DEF InitPrologueSteps, SetBit, Try, Rest, Acquire, Release
    <2>4. AuxHeldAt'
      BY <1>11 DEF InitPrologueSteps, SetBit, Try, Rest, Acquire, Release
    <2> HIDE DEF BindHeldAt, RingHeldAt, AuxHeldAt
    <2> QED
      BY <2>1, <2>2, <2>3, <2>4
  <1>12. CASE InitRingCalls
    BY <1>12 DEF InitRingCalls, InitRingCall, Goto
  <1>13. CASE InitRingSteps
    BY <1>13 DEF InitRingSteps, Try, Undo, InitRingError, InitRingReturn,
       Rest, Acquire, Release, RingOf, RingMapOf
  <1>14. CASE InitDriverOkSteps
    BY <1>14 DEF InitDriverOkSteps, Try, SetBit, Rest, Acquire, Release
  <1>15. CASE InitTxSteps
    BY <1>15 DEF InitTxSteps, Try, Undo, Rest, Acquire, Release
  <1>16. CASE InitRxSteps
    BY <1>16 DEF InitRxSteps, Try, Undo, WriteStatus, Rest, Acquire, Release
  <1>17. CASE InitRxPost
    BY <1>17 DEF InitRxPost, Goto
  <1>18. CASE InitRxKick
    BY <1>18 DEF InitRxKick, StateAt, BindLabels, InitLabels, ShutdownLabels,
       RunLabels, RingLabels
  <1>19. CASE InitCleanupSteps
    <2>1. held' \in [Resources -> 0 .. 1]
      BY <1>19 DEF InitCleanupSteps, UninitRing, Undo, WriteStatus, Rest,
         Acquire, Release, RingOf, RingMapOf
    <2>2. BindHeldAt'
      BY <1>19 DEF StateAt, InitLabels, RingLabels, RunLabels,
          InitCleanupSteps, UninitRing, Undo, WriteStatus, Rest,
         Acquire, Release, RingOf, RingMapOf
    <2>3. RingHeldAt'
      BY <1>19 DEF InitCleanupSteps, UninitRing, Undo, WriteStatus, Rest,
         Acquire, Release, RingOf, RingMapOf
    <2>4. AuxHeldAt'
      BY <1>19 DEF InitCleanupSteps, UninitRing, Undo, WriteStatus, Rest,
         Acquire, Release, RingOf, RingMapOf
    <2> HIDE DEF BindHeldAt, RingHeldAt, AuxHeldAt
    <2> QED
      BY <2>1, <2>2, <2>3, <2>4
  <1>20. CASE Shutdown
    BY <1>20 DEF Shutdown, Enter, Rest, StateAt, BindLabels, InitLabels,
       ShutdownLabels, RunLabels, RingLabels
  <1>21. CASE ShutdownSteps
    BY <1>21 DEF ShutdownSteps, UninitRing, Undo, WriteStatus, Rest, Acquire,
       Release, RingOf, RingMapOf
  <1>22. CASE ShutdownDone
    BY <1>22 DEF ShutdownDone, Goto, StateAt, BindLabels, InitLabels,
       ShutdownLabels, RunLabels, RingLabels
  <1>23. CASE TransmitPosts
    BY <1>23 DEF TransmitPosts
  <1>24. CASE ExitBoot
    BY <1>24 DEF ExitBoot
  <1>25. CASE OsRuns
    BY <1>25 DEF OsRuns, lifeVars
  <1> QED
    BY <1>1, <1>2, <1>3, <1>4, <1>5, <1>6, <1>7, <1>8, <1>9, <1>10, <1>11,
       <1>12, <1>13, <1>14, <1>15, <1>16, <1>17, <1>18, <1>19, <1>20, <1>21,
       <1>22, <1>23, <1>24, <1>25 DEF LifeNext, BindingSteps, InitSteps

(***************************************************************************)
(* Every action keeps what the labels say of the SNP state, of the status  *)
(* register and of the published queues.                                   *)
(***************************************************************************)
LEMMA StatusPreserved ==
  ASSUME LifeInv, LifeNext
  PROVE  StateAt' /\ StatusAt' /\ PostedAt'
  <1> USE DEF LifeInv, LifeTypeOK, Queues, StatusBits, StateAt, StatusAt, PostedAt,
              BindLabels, InitLabels, ShutdownLabels, RingLabels, RunLabels
  <1>1. CASE BindingStart
    BY <1>1 DEF BindingStart, Enter, Rest
  <1>2. CASE BindingStartSteps
    BY <1>2 DEF BindingStartSteps, Try, Undo, Rest
  <1>3. CASE BindingStartOpenChild
    BY <1>3 DEF BindingStartOpenChild
  <1>4. CASE SnpPopulateSteps
    BY <1>4 DEF SnpPopulateSteps, Try, Undo, Rest
  <1>5. CASE GetFeaturesSteps
    BY <1>5 DEF GetFeaturesSteps, FeatReset, SetBit, Try, WriteStatus, Rest
  <1>6. CASE BindingStopChild
    BY <1>6 DEF BindingStopChild
  <1>7. CASE BindingStopParent
    BY <1>7 DEF BindingStopParent
  <1>8. CASE SnpStart
    BY <1>8 DEF SnpStart, SetState
  <1>9. CASE SnpStop
    BY <1>9 DEF SnpStop, SetState
  <1>10. CASE Initialize
    BY <1>10 DEF Initialize, Enter, Rest
  <1>11. CASE InitPrologueSteps
    BY <1>11 DEF InitPrologueSteps, SetBit, Try, Rest
  <1>12. CASE InitRingCalls
    BY <1>12 DEF InitRingCalls, InitRingCall, Goto
  <1>13. CASE InitRingSteps
    BY <1>13 DEF InitRingSteps, Try, Undo, InitRingError, InitRingReturn, Rest
  <1>14. CASE InitDriverOkSteps
    BY <1>14 DEF InitDriverOkSteps, Try, SetBit, Rest
  <1>15. CASE InitTxSteps
    BY <1>15 DEF InitTxSteps, Try, Undo, Rest
  <1>16. CASE InitRxSteps
    BY <1>16 DEF InitRxSteps, Try, Undo, WriteStatus, Rest
  <1>17. CASE InitRxPost
    BY <1>17 DEF InitRxPost, Goto
  <1>18. CASE InitRxKick
    BY <1>18 DEF InitRxKick
  <1>19. CASE InitCleanupSteps
    BY <1>19 DEF InitCleanupSteps, UninitRing, Undo, WriteStatus, Rest
  <1>20. CASE Shutdown
    BY <1>20 DEF Shutdown, Enter, Rest
  <1>21. CASE ShutdownSteps
    <2>1. StateAt'
      BY <1>21 DEF ShutdownSteps, UninitRing, Undo, WriteStatus, Rest
    <2>2. StatusAt'
      BY <1>21 DEF ShutdownSteps, UninitRing, Undo, WriteStatus, Rest
    <2>3. PostedAt'
      BY <1>21 DEF ShutdownSteps, UninitRing, Undo, WriteStatus, Rest
    <2> QED
      BY <2>1, <2>2, <2>3
  <1>22. CASE ShutdownDone
    BY <1>22 DEF ShutdownDone, Goto
  <1>23. CASE TransmitPosts
    BY <1>23 DEF TransmitPosts
  <1>24. CASE ExitBoot
    <2>1. StateAt'
      BY <1>24 DEF ExitBoot
    <2>2. StatusAt'
      <3>1. snpState = "Initialized" => held["exitBoot"] = 1
        BY <1>24 DEF ExitBoot, BindHeldAt, HeldIs, Resources, BindResources
      <3>2. "DRIVER_OK" \in devStatus => snpState = "Initialized"
        BY <1>24 DEF ExitBoot
      <3>3. \/ snpState = "Initialized" /\ devStatus' = {}
            \/ snpState # "Initialized" /\ devStatus' = devStatus
        BY <1>24, <3>1 DEF ExitBoot
      <3> QED
        BY <1>24, <3>2, <3>3 DEF ExitBoot
    <2>3. PostedAt'
      BY <1>24 DEF ExitBoot
    <2> HIDE DEF StateAt, StatusAt, PostedAt
    <2> QED
      BY <2>1, <2>2, <2>3
  <1>25. CASE OsRuns
    BY <1>25 DEF OsRuns, lifeVars
  <1> QED
    BY <1>1, <1>2, <1>3, <1>4, <1>5, <1>6, <1>7, <1>8, <1>9, <1>10, <1>11,
       <1>12, <1>13, <1>14, <1>15, <1>16, <1>17, <1>18, <1>19, <1>20, <1>21,
       <1>22, <1>23, <1>24, <1>25 DEF LifeNext, BindingSteps, InitSteps

\* A step that changes nothing keeps the invariant.
LEMMA StutterPreserves == LifeInv /\ UNCHANGED lifeVars => LifeInv'
  BY DEF lifeVars, LifeInv, LifeTypeOK, StateAt, BindHeldAt, RingHeldAt, AuxHeldAt,
     HeldIs, StatusAt, PostedAt

\* LifeInv is inductive.
LEMMA LifeStepPreserves == LifeInv /\ [LifeNext]_lifeVars => LifeInv'
  <1> SUFFICES ASSUME LifeInv, LifeNext PROVE LifeInv'
    BY StutterPreserves
  <1>1. LifeTypeOK'
    BY ControlTyped, FlagsTyped, HeldPreserved DEF LifeTypeOK
  <1> QED
    BY <1>1, HeldPreserved, StatusPreserved DEF LifeInv

(***************************************************************************)
(* The life cycle keeps its books: LifeInv holds in every reachable state  *)
(* of the driver.                                                          *)
(***************************************************************************)
THEOREM LifeInvariant == LifeSpec => []LifeInv
  BY LifeStepPreserves, InitEstablishes, PTL DEF LifeSpec

(***************************************************************************)
(* Type correctness: on no error path is a resource released twice, or     *)
(* acquired while an earlier one of its kind is still held.                *)
(***************************************************************************)
THEOREM LifeTypeCorrect == LifeSpec => []LifeTypeOK
  <1>1. LifeInv => LifeTypeOK
    BY DEF LifeInv
  <1> QED
    BY <1>1, LifeInvariant, PTL

(***************************************************************************)
(* The state diagram of VirtioNet.h: a stopped or started interface has    *)
(* its device reset and holds nothing for traffic, and an instance that is *)
(* not there has leaked nothing.                                           *)
(***************************************************************************)
THEOREM QuietWhenNotInitialized == LifeSpec => []QuietUnlessInitialized
  <1>1. LifeInv => QuietUnlessInitialized
    BY DEF LifeInv, BindHeldAt, StatusAt, HeldIs, QuietUnlessInitialized, Lacks, Holds,
       Resources, TrafficResources, BindResources, RingResources, TxAux, RxAux
  <1> QED
    BY <1>1, LifeInvariant, PTL

\* The books say that a running device has its rings and buffers.
LEMMA BooksBack == LifeInv => RunningDeviceIsBacked
  <1> SUFFICES ASSUME LifeInv, "DRIVER_OK" \in devStatus
               PROVE  /\ Holds(RingResources)
                      /\ "rx" \in posted => Holds(RxAux)
                      /\ "tx" \in posted => Holds({"txReq", "txReqMap"})
    BY DEF RunningDeviceIsBacked
  <1>1. \/ pc \in RunLabels \cup {"ShutdownReset"}
        \/ pc = "idle" /\ snpState = "Initialized"
    BY DEF LifeInv, StatusAt
  <1>2. Holds(RingResources)
    BY <1>1 DEF LifeInv, BindHeldAt, RingHeldAt, AuxHeldAt, HeldIs, Holds, RunLabels,
       WithRings, Resources, TrafficResources, RingResources
  <1>3. "rx" \in posted => Holds(RxAux)
    BY <1>1 DEF LifeInv, BindHeldAt, AuxHeldAt, HeldIs, Holds, RunLabels, StateAt,
       InitLabels, StatusAt, PostedAt, Resources, TrafficResources, RxAux
  <1>4. "tx" \in posted => Holds({"txReq", "txReqMap"})
    BY <1>1 DEF LifeInv, BindHeldAt, AuxHeldAt, HeldIs, Holds, RunLabels, StateAt,
       InitLabels, PostedAt, Resources, TrafficResources, TxAux
  <1> QED
    BY <1>2, <1>3, <1>4

(***************************************************************************)
(* The contract of VirtioRingUninit and its extension to packet memory:    *)
(* while DRIVER_OK is set the rings, and the memory behind what has been   *)
(* published on them, are allocated and mapped; after ExitBootServices()   *)
(* the device does not run.                                                *)
(***************************************************************************)
THEOREM RunningDeviceBacked == LifeSpec => [](RunningDeviceIsBacked /\ QuietAfterExitBoot)
  <1>1. LifeInv => RunningDeviceIsBacked
    BY BooksBack
  <1>2. LifeInv => QuietAfterExitBoot
    BY DEF LifeInv, StateAt, StatusAt, QuietAfterExitBoot, RunLabels
  <1> QED
    BY <1>1, <1>2, LifeInvariant, PTL

(***************************************************************************)
(* The device is started only after a reset, with the bits of this         *)
(* bring-up and nothing published on its rings; a running device has       *)
(* nothing but zero written to its status register.                        *)
(***************************************************************************)
THEOREM StartsClean == LifeSpec => ResetBetweenRuns
  <1>1. ASSUME LifeInv, pc = "InitDriverOk"
        PROVE  /\ posted = {}
               /\ devStatus = {"ACK", "DRIVER"} \cup (IF modern THEN {"FEATURES_OK"} ELSE {})
    BY <1>1 DEF LifeInv, LifeTypeOK, Queues, StatusBits, StateAt, StatusAt, PostedAt,
       InitLabels, RunLabels
  <1>2. ASSUME LifeInv, LifeNext, "DRIVER_OK" \in devStatus
        PROVE  devStatus' \in {devStatus, {}}
    <2>1. \/ pc \in RunLabels \cup {"ShutdownReset"}
          \/ pc = "idle" /\ snpState = "Initialized" /\ ~exited
      BY <1>2 DEF LifeInv, StatusAt
    <2>2. CASE pc \in RunLabels \cup {"ShutdownReset"}
      BY <1>2, <2>2 DEF RunLabels, LifeNext, BindingSteps, BindingStart, BindingStartSteps,
         BindingStartOpenChild, SnpPopulateSteps, GetFeaturesSteps, FeatReset,
         BindingStopChild, BindingStopParent, SnpStart, SnpStop, SetState, InitSteps,
         Initialize, InitPrologueSteps, InitRingCalls, InitRingCall, InitRingSteps,
         InitDriverOkSteps, InitTxSteps, InitRxSteps, InitRxPost, InitRxKick,
         InitCleanupSteps, UninitRing, Shutdown, ShutdownSteps, ShutdownDone,
         TransmitPosts, ExitBoot, OsRuns, lifeVars, Enter, Try, SetBit, Undo,
         WriteStatus, Goto
    <2>3. CASE pc = "idle"
      BY <1>2, <2>3 DEF LifeNext, BindingSteps, BindingStart, BindingStartSteps,
         BindingStartOpenChild, SnpPopulateSteps, GetFeaturesSteps, FeatReset,
         BindingStopChild, BindingStopParent, SnpStart, SnpStop, SetState, InitSteps,
         Initialize, InitPrologueSteps, InitRingCalls, InitRingCall, InitRingSteps,
         InitDriverOkSteps, InitTxSteps, InitRxSteps, InitRxPost, InitRxKick,
         InitCleanupSteps, UninitRing, Shutdown, ShutdownSteps, ShutdownDone,
         TransmitPosts, ExitBoot, OsRuns, lifeVars, Enter, Try, SetBit, Undo,
         WriteStatus, Goto
    <2> QED
      BY <2>1, <2>2, <2>3
  <1>3. LifeInv /\ [LifeNext]_lifeVars =>
          [ /\ pc = "InitDriverOk" /\ pc' = "TxFreeStack" =>
                 /\ posted = {}
                 /\ devStatus = {"ACK", "DRIVER"} \cup (IF modern THEN {"FEATURES_OK"} ELSE {})
            /\ "DRIVER_OK" \in devStatus => devStatus' \in {devStatus, {}} ]_lifeVars
    BY <1>1, <1>2
  <1> QED
    BY <1>3, LifeInvariant, PTL DEF LifeSpec, ResetBetweenRuns

-----------------------------------------------------------------------------
(***************************************************************************)
(* The driver as a whole.                                                  *)
(***************************************************************************)

\* A data-path function runs only on an interface that is up.
BusyOnlyWhenUp ==
  DataIdle \/ (pc = "idle" /\ snpState = "Initialized" /\ ~exited)

\* The locals of a function that is not running are those of the initial state.
LocalsForgotten ==
  /\ txPc \notin {"publish", "notify"} => txArg = NoBuf
  /\ txPc # "reap" => txSeen = 0
  /\ rxPc # "check" => rxSeen = 0 /\ rxCap = 0

\* A host whose device does not run has forgotten both queues.
HostQuiet ==
  ~Running => /\ txHost = IdleHost /\ txKicked = FALSE
              /\ rxHost = IdleHost /\ rxKicked = FALSE

TxRingBlank == txRing = ZeroRing(TxQueueSize) /\ txDesc = [d \in TxHeads |-> NoBuf]

TxClean == txBufs = {} /\ lent = {}

\* What VirtioNetInitTx lays out beside the ring.
TxFresh == txFreeStack = InitialFreeStack /\ txCurPending = 0 /\ txLastUsed = 0

\* The transmit side, by the state of the interface.
TxSession ==
  /\ held["txRing"] = 0 \/ snpState # "Initialized" => TxRingBlank
  /\ held["txColl"] = 0 \/ snpState # "Initialized" => TxClean
  /\ snpState # "Initialized" => txHost = IdleHost /\ txKicked = FALSE
  /\ pc \in {"RxBuffer", "RxBufMap", "RxPost", "RxKick"} => TxFresh
  /\ Running /\ snpState = "Initialized" => TxInv

RxBlank ==
  /\ rxRing = ZeroRing(RxQueueSize)
  /\ rxHost = IdleHost
  /\ rxKicked = FALSE
  /\ rxBuf = [d \in RxHeads |-> 0]
  /\ rxSent = << >>
  /\ rxTaken = 0
  /\ rxGot = << >>

\* The receive side, which is live from the posting of its buffers on.
RxSession ==
  /\ "rx" \notin posted => RxBlank
  /\ pc = "RxPost" => rxLastUsed = 0
  /\ Running /\ "rx" \in posted => RxInv

NetInv == /\ LifeInv /\ BusyOnlyWhenUp /\ LocalsForgotten
          /\ HostQuiet /\ TxSession /\ RxSession

-----------------------------------------------------------------------------
(* The three parts and the whole.                                          *)

\* The state before the driver is bound.
LEMMA NetInitEstablishes == NetInit => NetInv
  <1> SUFFICES ASSUME NetInit PROVE NetInv
    OBVIOUS
  <1>1. LifeInv
    BY InitEstablishes DEF NetInit
  <1>2. /\ snpState = "absent" /\ pc = "idle" /\ devStatus = {} /\ posted = {}
        /\ txPc = "idle" /\ rxPc = "idle"
    BY DEF NetInit, LifeInit, TxInit
  <1>3. BusyOnlyWhenUp /\ LocalsForgotten /\ HostQuiet
    BY <1>2 DEF NetInit, TxInit, BusyOnlyWhenUp, DataIdle, LocalsForgotten, HostQuiet
  <1>4. TxSession /\ RxSession
    BY <1>2 DEF NetInit, TxInit, TxSession, TxRingBlank, TxClean, RxSession, RxBlank, Running
  <1> QED
    BY <1>1, <1>3, <1>4 DEF NetInv

\* To the life cycle, a step of the whole is one of its own steps or none: the
\* publication of a transmit chain is TransmitPosts.
LEMMA NetStepIsLifeStep ==
  ASSUME NetInv, [NetNext]_vars
  PROVE  [LifeNext]_lifeVars
  <1>1. CASE LifeStep
    BY <1>1 DEF LifeStep, LifeNext
  <1>2. CASE TxStep
    <2>1. CASE txPc = "publish"
      <3>1. pc = "idle" /\ snpState = "Initialized" /\ ~exited
        BY <2>1 DEF NetInv, BusyOnlyWhenUp, DataIdle
      <3> QED
        BY <1>2, <2>1, <3>1 DEF TxStep, LifeNext, TransmitPosts
    <2>2. CASE txPc # "publish"
      BY <1>2, <2>2 DEF TxStep, lifeVars
    <2> QED
      BY <2>1, <2>2
  <1>3. CASE RxStep
    BY <1>3 DEF RxStep
  <1>4. CASE HostStep
    BY <1>4 DEF HostStep
  <1>5. CASE UNCHANGED vars
    BY <1>5 DEF vars
  <1> QED
    BY <1>1, <1>2, <1>3, <1>4, <1>5 DEF NetNext

\* What the actions of the life cycle do to the state that the data path looks
\* at: the status register, Snm.State, the resources and the published queues.
LEMMA LifeMoves ==
  ASSUME LifeInv, LifeNext
  PROVE  /\ Running /\ ~Running' => devStatus' = {}
         /\ Running' /\ snpState' = "Initialized" =>
              /\ Running /\ held' = held /\ devStatus' = devStatus
              /\ snpState = "Initialized" \/ (pc = "RxKick" /\ snpState = "Started")
              /\ pc # "TxSharedReqMap"
         /\ snpState' # "Initialized" /\ snpState = "Initialized" =>
              pc = "ShutdownDone" /\ held' = held
         /\ pc' \in {"RxBuffer", "RxBufMap", "RxPost", "RxKick"} =>
              \/ pc = "TxSharedReqMap" /\ pc' = "RxBuffer" /\ snpState = "Started"
              \/ pc \in {"RxBuffer", "RxBufMap", "RxPost"}
         /\ pc' = "RxPost" => pc = "RxBufMap" /\ snpState = "Started"
  <1> USE DEF LifeNext, BindingSteps, BindingStart, BindingStartSteps,
         BindingStartOpenChild, SnpPopulateSteps, GetFeaturesSteps, FeatReset,
         BindingStopChild, BindingStopParent, SnpStart, SnpStop, SetState, InitSteps,
         Initialize, InitPrologueSteps, InitRingCalls, InitRingCall, InitRingSteps,
         InitDriverOkSteps, InitTxSteps, InitRxSteps, InitRxPost, InitRxKick,
         InitCleanupSteps, UninitRing, Shutdown, ShutdownSteps, ShutdownDone,
         TransmitPosts, ExitBoot, OsRuns, lifeVars, Enter, Try, SetBit, Undo,
         WriteStatus, Goto, Rest, Running
  <1>1. Running /\ ~Running' => devStatus' = {}
    BY DEF LifeInv, StatusAt, RunLabels
  <1>2. Running' /\ snpState' = "Initialized" =>
              /\ Running /\ held' = held /\ devStatus' = devStatus
              /\ snpState = "Initialized" \/ (pc = "RxKick" /\ snpState = "Started")
              /\ pc # "TxSharedReqMap"
    BY DEF LifeInv, StatusAt, RunLabels, StateAt, BindLabels, InitLabels, ShutdownLabels, RingLabels
  <1>3. snpState' # "Initialized" /\ snpState = "Initialized" =>
              pc = "ShutdownDone" /\ held' = held
    BY DEF LifeInv, StateAt, BindLabels, InitLabels
  <1>4. pc' \in {"RxBuffer", "RxBufMap", "RxPost", "RxKick"} =>
              \/ pc = "TxSharedReqMap" /\ pc' = "RxBuffer" /\ snpState = "Started"
              \/ pc \in {"RxBuffer", "RxBufMap", "RxPost"}
    BY DEF LifeInv, StateAt, InitLabels, RunLabels, InitRingError, InitRingReturn
  <1>5. pc' = "RxPost" => pc = "RxBufMap" /\ snpState = "Started"
    BY DEF LifeInv, StateAt, InitLabels, RunLabels, InitRingError, InitRingReturn
  <1> QED
    BY <1>1, <1>2, <1>3, <1>4, <1>5

\* The same for the account of the receive queue.
LEMMA RxMoves ==
  ASSUME LifeInv, LifeNext
  PROVE  /\ "rx" \in posted' /\ "rx" \notin posted =>
              pc = "RxPost" /\ held' = held /\ devStatus' = devStatus /\ snpState' # "Initialized"
         /\ "rx" \notin posted' /\ "rx" \in posted =>
              pc \in {"ReleaseRxRing", "ShutdownRxRing"} /\ pc' \in {"DeviceFailed", "ShutdownDone"}
         /\ pc = "RxPost" => "rx" \in posted' /\ "rx" \notin posted /\ pc' = "RxKick"
         /\ pc = "RxKick" => "rx" \in posted
         /\ Running' /\ "rx" \in posted' =>
              Running /\ held' = held /\ devStatus' = devStatus /\ pc # "RxBufMap"
  <1> USE DEF LifeNext, BindingSteps, BindingStart, BindingStartSteps,
         BindingStartOpenChild, SnpPopulateSteps, GetFeaturesSteps, FeatReset,
         BindingStopChild, BindingStopParent, SnpStart, SnpStop, SetState, InitSteps,
         Initialize, InitPrologueSteps, InitRingCalls, InitRingCall, InitRingSteps,
         InitDriverOkSteps, InitTxSteps, InitRxSteps, InitRxPost, InitRxKick,
         InitCleanupSteps, UninitRing, Shutdown, ShutdownSteps, ShutdownDone,
         TransmitPosts, ExitBoot, OsRuns, lifeVars, Enter, Try, SetBit, Undo,
         WriteStatus, Goto, Rest, Running
  <1>1. "rx" \in posted' /\ "rx" \notin posted =>
              pc = "RxPost" /\ held' = held /\ devStatus' = devStatus /\ snpState' # "Initialized"
    BY DEF LifeInv, StateAt, InitLabels, RunLabels
  <1>2. "rx" \notin posted' /\ "rx" \in posted =>
              pc \in {"ReleaseRxRing", "ShutdownRxRing"} /\ pc' \in {"DeviceFailed", "ShutdownDone"}
    OBVIOUS
  <1>3. pc = "RxPost" => "rx" \in posted' /\ "rx" \notin posted /\ pc' = "RxKick"
    BY DEF LifeInv, StateAt, PostedAt, InitLabels, RunLabels
  <1>4. pc = "RxKick" => "rx" \in posted
    BY DEF LifeInv, PostedAt
  <1>5. Running' /\ "rx" \in posted' =>
              Running /\ held' = held /\ devStatus' = devStatus /\ pc # "RxBufMap"
    <2>1. LifeInv'
      BY LifeStepPreserves
    <2>2. Running' /\ "rx" \in posted' => pc' \in {"RxKick", "RxAbort", "idle", "ShutdownReset"}
      BY <2>1 DEF LifeInv, StateAt, PostedAt, StatusAt, InitLabels, RunLabels
    <2>3. Running' /\ pc' = "idle" => snpState' = "Initialized"
      BY <2>1 DEF LifeInv, StatusAt, RunLabels
    <2> QED
      BY <2>2, <2>3 DEF LifeInv, StateAt, PostedAt, InitLabels, RunLabels, BindLabels,
         ShutdownLabels, RingLabels, InitRingError, InitRingReturn
  <1> QED
    BY <1>1, <1>2, <1>3, <1>4, <1>5

\* What the labels say of the resources behind the data path.
LEMMA HeldFacts ==
  ASSUME LifeInv
  PROVE  /\ pc = "idle" /\ snpState = "Initialized" => Holds(Resources)
         /\ pc = "ShutdownReset" => Holds(Resources)
         /\ pc \in {"DeviceFailed", "ShutdownDone"} => Lacks(TrafficResources)
         /\ pc \in {"RxKick", "RxPost"} => Holds(Resources)
         /\ pc \in {"RxBuffer", "RxBufMap", "RxPost", "RxKick"} => Holds(TxAux)
  <1> USE DEF LifeInv, HeldIs, Holds, Lacks
  <1>1. pc = "idle" /\ snpState = "Initialized" => Holds(Resources)
    BY DEF BindHeldAt
  <1>2. /\ pc = "ShutdownReset" => Holds(Resources)
        /\ pc \in {"RxKick", "RxPost"} => Holds(Resources)
    BY DEF AuxHeldAt
  <1>3. pc = "DeviceFailed" => Lacks(TrafficResources)
    BY DEF RingHeldAt, Resources, BindResources, TrafficResources, RingResources, TxAux, RxAux
  <1>4. pc = "ShutdownDone" => Lacks(TrafficResources)
    BY DEF AuxHeldAt, Resources, BindResources, TrafficResources, RingResources, TxAux, RxAux
  <1>5. pc \in {"RxBuffer", "RxBufMap", "RxPost", "RxKick"} => Holds(TxAux)
    BY DEF AuxHeldAt, Resources, TrafficResources, TxAux
  <1> QED
    BY <1>1, <1>2, <1>3, <1>4, <1>5

-----------------------------------------------------------------------------
(* A step of the life cycle.                                               *)

\* While a function of the life cycle runs no other does, and a device that is
\* reset forgets both queues.
LEMMA LifeStepQuiets ==
  ASSUME NetInv, LifeStep
  PROVE  (BusyOnlyWhenUp /\ LocalsForgotten /\ HostQuiet)'
  <1>1. LifeInv /\ LifeNext
    BY DEF NetInv, LifeStep, LifeNext
  <1>2. DataIdle /\ UNCHANGED <<txPc, txArg, txSeen, rxPc, rxSeen, rxCap>>
    BY DEF LifeStep, TxStateEffect, RxEffect
  <1>3. DataIdle' /\ LocalsForgotten'
    BY <1>2 DEF NetInv, DataIdle, LocalsForgotten
  <1>4. /\ txHost' = HostAfter(txHost) /\ txKicked' = (txKicked /\ devStatus' # {})
        /\ rxHost' = HostAfter(rxHost)
        /\ rxKicked' = ((rxKicked \/ (pc = "RxKick" /\ pc' = "idle")) /\ devStatus' # {})
    BY DEF LifeStep, TxRingEffect, RxEffect
  <1>5. pc = "RxKick" => Running
    BY <1>1 DEF LifeInv, StatusAt, Running
  <1>6. ~Running' => devStatus' = {} \/ ~Running
    BY <1>1, LifeMoves
  <1>7. HostQuiet'
    BY <1>4, <1>5, <1>6 DEF NetInv, HostQuiet, HostAfter
  <1> QED
    BY <1>3, <1>7 DEF BusyOnlyWhenUp

\* Initialize hands the transmit side over in its initial state, Shutdown and
\* every error path of Initialize leave none of it behind.
LEMMA LifeStepKeepsTx ==
  ASSUME NetInv, LifeStep
  PROVE  TxSession'
  <1>1. LifeInv /\ LifeNext /\ LifeInv'
    BY LifeStepPreserves DEF NetInv, LifeStep, LifeNext
  <1>2. DataIdle /\ TxSession /\ LocalsForgotten /\ HostQuiet /\ HostQuiet'
    BY LifeStepQuiets DEF NetInv, LifeStep
  <1>3. TxRingEffect /\ TxStateEffect
    BY DEF LifeStep
  <1>4. snpState = "Initialized" /\ snpState' # "Initialized" =>
          held'["txRing"] = 0 /\ held'["txColl"] = 0 /\ ~Running'
    <2> SUFFICES ASSUME snpState = "Initialized", snpState' # "Initialized"
                 PROVE  held'["txRing"] = 0 /\ held'["txColl"] = 0 /\ ~Running'
      OBVIOUS
    <2>1. pc = "ShutdownDone" /\ held' = held
      BY <1>1, LifeMoves
    <2>2. Lacks(TrafficResources)
      BY <1>1, <2>1, HeldFacts
    <2>3. ~Running
      BY <1>1, <2>1 DEF LifeInv, StatusAt, Running
    <2>4. ~Running'
      BY <1>1, <2>1 DEF LifeNext, BindingSteps, BindingStart, BindingStartSteps,
         BindingStartOpenChild, SnpPopulateSteps, GetFeaturesSteps, FeatReset,
         BindingStopChild, BindingStopParent, SnpStart, SnpStop, SetState, InitSteps,
         Initialize, InitPrologueSteps, InitRingCalls, InitRingCall, InitRingSteps,
         InitDriverOkSteps, InitTxSteps, InitRxSteps, InitRxPost, InitRxKick,
         InitCleanupSteps, UninitRing, Shutdown, ShutdownSteps, ShutdownDone,
         TransmitPosts, ExitBoot, OsRuns, lifeVars, Enter, Try, SetBit, Undo,
         WriteStatus, Goto, Rest, Running, LifeInv, StatusAt
    <2> QED
      BY <2>1, <2>2, <2>4 DEF Lacks, TrafficResources, RingResources, TxAux
  <1>5. held'["txRing"] = 0 \/ snpState' # "Initialized" => TxRingBlank'
    BY <1>2, <1>3, <1>4 DEF TxSession, TxRingBlank, TxRingEffect
  <1>6. held'["txColl"] = 0 \/ snpState' # "Initialized" => TxClean'
    BY <1>2, <1>3, <1>4 DEF TxSession, TxClean, TxStateEffect
  <1>7. snpState' # "Initialized" => txHost' = IdleHost /\ txKicked' = FALSE
    BY <1>2, <1>3, <1>4 DEF TxSession, HostQuiet, TxRingEffect, HostAfter
  <1>8. pc' \in {"RxBuffer", "RxBufMap", "RxPost", "RxKick"} => TxFresh'
    <2>1. CASE pc = "TxSharedReqMap" /\ pc' = "RxBuffer" /\ snpState = "Started"
      BY <1>2, <1>3, <2>1 DEF TxSession, TxRingBlank, ZeroRing, TxStateEffect, TxFresh
    <2>2. CASE pc \in {"RxBuffer", "RxBufMap", "RxPost"}
      BY <1>2, <1>3, <2>2 DEF TxSession, TxStateEffect, TxFresh
    <2> QED
      BY <1>1, <2>1, <2>2, LifeMoves
  <1>9. Running' /\ snpState' = "Initialized" => TxInv'
    <2> SUFFICES ASSUME Running', snpState' = "Initialized" PROVE TxInv'
      OBVIOUS
    <2>1. /\ Running /\ held' = held /\ devStatus' = devStatus /\ pc # "TxSharedReqMap"
          /\ snpState = "Initialized" \/ (pc = "RxKick" /\ snpState = "Started")
      BY <1>1, LifeMoves
    <2>2. held["txRing"] = 1 /\ held["txColl"] = 1
      <3>1. pc' = "idle" \/ pc' = "ShutdownReset"
        BY <1>1 DEF LifeInv, StatusAt, StateAt, InitLabels, Running
      <3>2. Holds(Resources)'
        BY <1>1, <3>1, HeldFacts, LifeStepPreserves DEF LifeInv, BindHeldAt, AuxHeldAt, HeldIs, Holds
      <3> QED
        BY <2>1, <3>2 DEF Holds, Resources, TrafficResources, RingResources, TxAux
    <2>3. TxInv
      <3>1. CASE snpState = "Initialized"
        BY <1>2, <2>1, <3>1 DEF TxSession
      <3>2. CASE pc = "RxKick" /\ snpState = "Started"
        <4>1. TxInit
          BY <1>2, <3>2 DEF TxSession, TxRingBlank, TxClean, TxFresh, LocalsForgotten,
             DataIdle, TxInit
        <4> QED
          BY <4>1, TxInitEstablishes
      <3> QED
        BY <2>1, <3>1, <3>2
    <2>4. devStatus' # {} /\ txKicked \in BOOLEAN
      BY <2>3 DEF Running, TxInv, TxChains, TxTypeOK
    <2>5. UNCHANGED txVars
      <3>1. txRing' = txRing /\ txDesc' = txDesc /\ txHost' = txHost
        BY <1>3, <2>1, <2>2, <2>4 DEF TxRingEffect, HostAfter
      <3>2. txKicked' = txKicked
        BY <1>3, <2>4 DEF TxRingEffect
      <3>3. UNCHANGED <<txFreeStack, txCurPending, txLastUsed, txBufs, txPc, txArg, txSeen, lent>>
        BY <1>3, <2>1, <2>2 DEF TxStateEffect
      <3> QED
        BY <3>1, <3>2, <3>3 DEF txVars
    <2> QED
      BY <2>3, <2>5, TxStepPreserves
  <1> QED
    BY <1>5, <1>6, <1>7, <1>8, <1>9 DEF TxSession

\* The receive side is live from VirtioNetInitRx's write of Avail.Idx to the
\* reset, and as good as new when its ring is released.
LEMMA LifeStepKeepsRx ==
  ASSUME NetInv, LifeStep
  PROVE  RxSession'
  <1>1. LifeInv /\ LifeNext /\ LifeInv'
    BY LifeStepPreserves DEF NetInv, LifeStep, LifeNext
  <1>2. DataIdle /\ RxSession /\ LocalsForgotten /\ HostQuiet /\ HostQuiet'
    BY LifeStepQuiets DEF NetInv, LifeStep
  <1>3. RxEffect
    BY DEF LifeStep
  <1>4. ASSUME "rx" \notin posted', "rx" \notin posted PROVE RxBlank'
    <2>1. pc # "RxPost" /\ pc # "RxKick"
      BY <1>1, <1>4, RxMoves
    <2>2. RxBlank
      BY <1>2, <1>4 DEF RxSession
    <2> QED
      BY <1>3, <2>1, <2>2 DEF RxEffect, RxBlank, HostAfter
  <1>5. ASSUME "rx" \notin posted', "rx" \in posted PROVE RxBlank'
    <2>1. pc \in {"ReleaseRxRing", "ShutdownRxRing"} /\ pc' \in {"DeviceFailed", "ShutdownDone"}
      BY <1>1, <1>5, RxMoves
    <2>2. held'["rxRing"] = 0 /\ held'["rxBuf"] = 0
      <3>1. Lacks(TrafficResources)'
        BY <1>1, <2>1, HeldFacts, LifeStepPreserves DEF LifeInv, RingHeldAt, AuxHeldAt, HeldIs,
           Lacks, Resources, BindResources, TrafficResources, RingResources, TxAux, RxAux
      <3> QED
        BY <3>1 DEF Lacks, TrafficResources, RingResources, RxAux
    <2>3. ~Running /\ pc # "RxKick"
      BY <1>1, <2>1 DEF LifeInv, StatusAt, RunLabels, Running
    <2>4. rxHost' = IdleHost /\ rxKicked' = FALSE
      BY <1>2, <1>3, <2>3 DEF RxEffect, HostQuiet, HostAfter
    <2> QED
      BY <1>3, <2>1, <2>2, <2>4 DEF RxEffect, RxBlank
  <1>6. pc' = "RxPost" => rxLastUsed' = 0
    <2> SUFFICES ASSUME pc' = "RxPost" PROVE rxLastUsed' = 0
      OBVIOUS
    <2>1. pc = "RxBufMap" /\ snpState = "Started"
      BY <1>1, LifeMoves
    <2>2. "rx" \notin posted
      BY <1>1, <2>1 DEF LifeInv, PostedAt
    <2> QED
      BY <1>2, <1>3, <2>1, <2>2 DEF RxSession, RxBlank, ZeroRing, RxEffect
  <1>7. ASSUME Running', "rx" \in posted' PROVE RxInv'
    <2>1. Running /\ held' = held /\ devStatus' = devStatus /\ pc # "RxBufMap"
      BY <1>1, <1>7, RxMoves
    <2>2. held["rxRing"] = 1 /\ held["rxBuf"] = 1 /\ devStatus' # {}
      <3>1. RunningDeviceIsBacked'
        BY <1>1, BooksBack, PTL
      <3> QED
        BY <1>7, <2>1, <3>1 DEF RunningDeviceIsBacked, Running, Holds, RingResources, RxAux
    <2>3. UNCHANGED <<rxBuf, rxHost, rxLastUsed, rxSent, rxTaken, rxGot, rxPc, rxSeen, rxCap>>
      BY <1>3, <2>1, <2>2 DEF RxEffect, HostAfter
    <2>4. CASE "rx" \in posted
      <3>1. pc # "RxPost"
        BY <1>1, <2>4, RxMoves
      <3>2. rxRing' = rxRing
        BY <1>3, <2>1, <2>2, <3>1 DEF RxEffect
      <3>3. RxInv /\ rxKicked' \in BOOLEAN
        BY <1>2, <1>3, <2>1, <2>4 DEF RxSession, RxEffect
      <3>4. RxTypeOK' /\ RxInHand' = RxInHand
        BY <2>3, <3>2, <3>3 DEF RxInv, RxChains, RxTypeOK, RxInHand
      <3> QED
        BY <2>3, <3>2, <3>3, <3>4 DEF RxInv, RxChains, RxSampled, DeliveredInOrder,
           WaitingPacketsIntact
    <2>5. CASE "rx" \notin posted
      <3>1. pc = "RxPost" /\ RxBlank /\ rxLastUsed = 0
        BY <1>1, <1>2, <1>7, <2>5, RxMoves DEF RxSession
      <3>2. rxRing' = RxPosted(ZeroRing(RxQueueSize))
        BY <1>3, <2>1, <2>2, <3>1 DEF RxEffect, RxBlank
      <3>3. rxKicked' \in BOOLEAN
        BY <1>3 DEF RxEffect
      <3>4. RxReady'
        BY <1>2, <2>3, <3>1, <3>2, <3>3 DEF RxReady, RxBlank, DataIdle, LocalsForgotten
      <3> QED
        BY <3>4, RxReadyEstablishes, PTL
    <2> QED
      BY <2>4, <2>5
  <1> QED
    BY <1>4, <1>5, <1>6, <1>7 DEF RxSession

-----------------------------------------------------------------------------
(* A step of the data path or of the host.                                 *)

\* An interface that is up has a running device, its resources and posted
\* receive buffers.
LEMMA UpMeansRunning ==
  ASSUME LifeInv, pc = "idle", snpState = "Initialized", ~exited
  PROVE  Running /\ "rx" \in posted /\ held["txRing"] = 1 /\ held["txColl"] = 1
  <1>1. Running /\ "rx" \in posted
    BY DEF LifeInv, StatusAt, PostedAt, Running
  <1>2. Holds(Resources)
    BY HeldFacts
  <1> QED
    BY <1>1, <1>2 DEF Holds, Resources, TrafficResources, RingResources, TxAux

\* Transmit and GetStatus run while the device does.
LEMMA TxStepKeeps ==
  ASSUME NetInv, TxStep
  PROVE  (BusyOnlyWhenUp /\ LocalsForgotten /\ HostQuiet /\ TxSession /\ RxSession)'
  <1>1. /\ LifeInv /\ BusyOnlyWhenUp /\ LocalsForgotten /\ HostQuiet /\ TxSession /\ RxSession
        /\ UNCHANGED <<snpState, pc, q, devStatus, held, modern, exited>> /\ UNCHANGED rxVars
    BY DEF NetInv, TxStep
  <1>2. "rx" \in posted' <=> "rx" \in posted
    BY DEF TxStep
  <1>3. pc = "idle" /\ snpState = "Initialized" /\ ~exited
    BY <1>1 DEF TxStep, Callable, BusyOnlyWhenUp, DataIdle, TransmitSteps, TransmitPublish,
       TransmitNotify, TransmitNotifyFails, GetStatusSteps, GetStatusNone, GetStatusTxBuf
  <1>4. Running /\ "rx" \in posted /\ held["txRing"] = 1 /\ held["txColl"] = 1
    BY <1>1, <1>3, UpMeansRunning
  <1>5. TxNext
    BY DEF TxStep, TxNext
  <1>6. TxInv'
    <2>1. TxInv
      BY <1>1, <1>3, <1>4 DEF TxSession
    <2> QED
      BY <2>1, <1>5, TxStepPreserves
  <1>7. LocalsForgotten'
    <2>1. rxPc' # "check" => rxSeen' = 0 /\ rxCap' = 0
      BY <1>1 DEF LocalsForgotten, rxVars
    <2>2. /\ txPc' \notin {"publish", "notify"} => txArg' = NoBuf
          /\ txPc' # "reap" => txSeen' = 0
      BY <1>1 DEF LocalsForgotten, TxStep, Transmit, GetStatus, TransmitSteps, TransmitPublish,
         TransmitNotify, TransmitNotifyFails, GetStatusSteps, GetStatusNone, GetStatusTxBuf
    <2> QED
      BY <2>1, <2>2 DEF LocalsForgotten
  <1>8. Running' /\ HostQuiet' /\ BusyOnlyWhenUp'
    BY <1>1, <1>3, <1>4 DEF Running, HostQuiet, BusyOnlyWhenUp
  <1>9. TxSession'
    BY <1>1, <1>3, <1>4, <1>6 DEF TxSession
  <1>10. RxSession'
    <2>1. RxInv
      BY <1>1, <1>4 DEF RxSession
    <2>2. RxInv'
      BY <1>1, <2>1, RxStepPreserves
    <2> QED
      BY <1>1, <1>2, <1>3, <1>4, <2>2 DEF RxSession
  <1> QED
    BY <1>7, <1>8, <1>9, <1>10

\* So does Receive.
LEMMA RxStepKeeps ==
  ASSUME NetInv, RxStep
  PROVE  (BusyOnlyWhenUp /\ LocalsForgotten /\ HostQuiet /\ TxSession /\ RxSession)'
  <1>1. /\ LifeInv /\ BusyOnlyWhenUp /\ LocalsForgotten /\ HostQuiet /\ TxSession /\ RxSession
        /\ UNCHANGED lifeVars /\ UNCHANGED txVars
    BY DEF NetInv, RxStep
  <1>2. pc = "idle" /\ snpState = "Initialized" /\ ~exited
    BY <1>1 DEF RxStep, Callable, BusyOnlyWhenUp, DataIdle, ReceiveSteps, ReceiveNotReady,
       ReceiveTooSmall, ReceiveShort, ReceiveCopy, ReceivePublish, ReceiveNotify,
       ReceiveNotifyFails
  <1>3. Running /\ "rx" \in posted /\ held["txRing"] = 1 /\ held["txColl"] = 1
    BY <1>1, <1>2, UpMeansRunning
  <1>4. RxInv'
    <2>1. RxInv /\ RxNext
      BY <1>1, <1>3 DEF RxSession, RxStep, RxNext
    <2> QED
      BY <2>1, RxStepPreserves
  <1>5. LocalsForgotten'
    <2>1. /\ txPc' \notin {"publish", "notify"} => txArg' = NoBuf
          /\ txPc' # "reap" => txSeen' = 0
      BY <1>1 DEF LocalsForgotten, txVars
    <2>2. rxPc' # "check" => rxSeen' = 0 /\ rxCap' = 0
      BY <1>1 DEF LocalsForgotten, RxStep, Receive, ReceiveSteps, ReceiveNotReady,
         ReceiveTooSmall, ReceiveShort, ReceiveCopy, ReceivePublish, ReceiveNotify,
         ReceiveNotifyFails, ForgetLocals
    <2> QED
      BY <2>1, <2>2 DEF LocalsForgotten
  <1>6. Running' /\ HostQuiet' /\ BusyOnlyWhenUp'
    BY <1>1, <1>2, <1>3 DEF Running, HostQuiet, BusyOnlyWhenUp, lifeVars
  <1>7. TxSession'
    <2>1. TxInv
      BY <1>1, <1>2, <1>3 DEF TxSession
    <2>2. TxInv'
      BY <1>1, <2>1, TxStepPreserves
    <2> QED
      BY <1>1, <1>2, <1>3, <2>2 DEF TxSession, lifeVars
  <1>8. RxSession'
    BY <1>1, <1>2, <1>3, <1>4 DEF RxSession, lifeVars
  <1> QED
    BY <1>5, <1>6, <1>7, <1>8

\* A blank queue gives the host nothing to do.
LEMMA BlankIsIdle ==
  /\ TxRingBlank /\ txHost = IdleHost /\ txKicked = FALSE => ~TxHostSteps
  /\ RxBlank => ~RxHostSteps
  <1>1. TxRingBlank /\ txHost = IdleHost /\ txKicked = FALSE => ~TxHostSteps
    BY DEF TxRingBlank, ZeroRing, IdleHost, TxHostSteps, TxHostFetch, TxHostComplete, TxHostIdle,
       HostCanFetch
  <1>2. RxBlank => ~RxHostSteps
    BY DEF RxBlank, ZeroRing, IdleHost, RxHostSteps, RxHostFetch, RxHostFill, RxHostIdle,
       HostCanFetch
  <1> QED
    BY <1>1, <1>2

\* The host works only on what the driver has published to it.
LEMMA HostStepKeeps ==
  ASSUME NetInv, HostStep
  PROVE  (BusyOnlyWhenUp /\ LocalsForgotten /\ HostQuiet /\ TxSession /\ RxSession)'
  <1>1. /\ BusyOnlyWhenUp /\ LocalsForgotten /\ TxSession /\ RxSession
        /\ UNCHANGED lifeVars /\ Running /\ LifeInv
    BY DEF NetInv, HostStep
  <1>2. Running' /\ HostQuiet'
    BY <1>1 DEF lifeVars, Running, HostQuiet
  <1>3. CASE TxHostSteps /\ UNCHANGED rxVars
    <2>1. snpState = "Initialized" /\ TxInv
      BY <1>1, <1>3, BlankIsIdle DEF TxSession
    <2>2. TxInv'
      BY <1>3, <2>1, TxStepPreserves DEF TxNext
    <2>3. UNCHANGED <<txPc, txArg, txSeen>>
      BY <1>3 DEF TxHostSteps, TxHostFetch, TxHostComplete, TxHostIdle
    <2>4. BusyOnlyWhenUp' /\ LocalsForgotten'
      BY <1>1, <1>3, <2>3 DEF BusyOnlyWhenUp, DataIdle, LocalsForgotten, rxVars, lifeVars
    <2>5. held["txRing"] = 1 /\ held["txColl"] = 1
      <3>1. pc = "idle" \/ pc = "ShutdownReset"
        BY <1>1, <2>1 DEF LifeInv, StatusAt, StateAt, InitLabels, Running
      <3>2. Holds(Resources)
        BY <1>1, <2>1, <3>1, HeldFacts
      <3> QED
        BY <3>2 DEF Holds, Resources, TrafficResources, RingResources, TxAux
    <2>6. pc \notin {"RxBuffer", "RxBufMap", "RxPost", "RxKick"}
      BY <1>1, <2>1 DEF LifeInv, StateAt, InitLabels, RunLabels
    <2>7. TxSession'
      BY <1>1, <2>1, <2>2, <2>5, <2>6 DEF TxSession, lifeVars
    <2>8. RxInv => RxInv'
      BY <1>3, RxStepPreserves
    <2>9. RxSession'
      BY <1>1, <1>2, <1>3, <2>8 DEF RxSession, RxBlank, rxVars, lifeVars
    <2> QED
      BY <1>2, <2>4, <2>7, <2>9
  <1>4. CASE RxHostSteps /\ UNCHANGED txVars
    <2>1. "rx" \in posted /\ RxInv
      BY <1>1, <1>4, BlankIsIdle DEF RxSession
    <2>2. RxInv'
      BY <1>4, <2>1, RxStepPreserves DEF RxNext
    <2>3. UNCHANGED <<rxPc, rxSeen, rxCap, rxLastUsed>>
      BY <1>4 DEF RxHostSteps, RxHostFetch, RxHostFill, RxHostIdle
    <2>4. BusyOnlyWhenUp' /\ LocalsForgotten'
      BY <1>1, <1>4, <2>3 DEF BusyOnlyWhenUp, DataIdle, LocalsForgotten, txVars, lifeVars
    <2>5. TxInv => TxInv'
      BY <1>4, TxStepPreserves
    <2>6. TxSession'
      BY <1>1, <1>2, <1>4, <2>5 DEF TxSession, TxRingBlank, TxClean, TxFresh, txVars, lifeVars
    <2>7. RxSession'
      BY <1>1, <2>1, <2>2, <2>3 DEF RxSession, lifeVars
    <2> QED
      BY <1>2, <2>4, <2>6, <2>7
  <1> QED
    BY <1>3, <1>4 DEF HostStep

\* Nothing happens.
LEMMA NetStutterKeeps ==
  ASSUME NetInv, UNCHANGED vars
  PROVE  (BusyOnlyWhenUp /\ LocalsForgotten /\ HostQuiet /\ TxSession /\ RxSession)'
  <1>1. UNCHANGED lifeVars /\ UNCHANGED txVars /\ UNCHANGED rxVars
    BY DEF vars
  <1>2. (TxInv => TxInv') /\ (RxInv => RxInv')
    BY <1>1, TxStepPreserves, RxStepPreserves
  <1>3. (BusyOnlyWhenUp /\ LocalsForgotten /\ HostQuiet)'
    BY <1>1 DEF NetInv, BusyOnlyWhenUp, DataIdle, LocalsForgotten, HostQuiet, Running,
       lifeVars, txVars, rxVars
  <1>4. TxSession'
    BY <1>1, <1>2 DEF NetInv, TxSession, TxRingBlank, TxClean, TxFresh, Running, txVars, lifeVars
  <1>5. RxSession'
    BY <1>1, <1>2 DEF NetInv, RxSession, RxBlank, Running, rxVars, lifeVars
  <1> QED
    BY <1>3, <1>4, <1>5

\* NetInv is inductive.
LEMMA NetStepPreserves == NetInv /\ [NetNext]_vars => NetInv'
  <1> SUFFICES ASSUME NetInv, [NetNext]_vars PROVE NetInv'
    OBVIOUS
  <1>1. LifeInv'
    BY NetStepIsLifeStep, LifeStepPreserves DEF NetInv
  <1>2. CASE LifeStep
    BY <1>1, <1>2, LifeStepQuiets, LifeStepKeepsTx, LifeStepKeepsRx DEF NetInv
  <1>3. CASE TxStep
    BY <1>1, <1>3, TxStepKeeps DEF NetInv
  <1>4. CASE RxStep
    BY <1>1, <1>4, RxStepKeeps DEF NetInv
  <1>5. CASE HostStep
    BY <1>1, <1>5, HostStepKeeps DEF NetInv
  <1>6. CASE UNCHANGED vars
    BY <1>1, <1>6, NetStutterKeeps DEF NetInv
  <1> QED
    BY <1>2, <1>3, <1>4, <1>5, <1>6 DEF NetNext

-----------------------------------------------------------------------------
(* The theorems.                                                           *)

\* The parts and the life cycle agree in every reachable state of the driver.
THEOREM NetInvariant == NetSpec => []NetInv
  BY NetInitEstablishes, NetStepPreserves, PTL DEF NetSpec

(***************************************************************************)
(* The composition implements the life cycle: what the theorems above      *)
(* show of LifeSpec (the state diagram of VirtioNet.h, the contract of     *)
(* VirtioRingUninit, the reset between two runs) holds of the whole        *)
(* driver, data path and host included.                                    *)
(***************************************************************************)
THEOREM NetImplementsLife == NetSpec => LifeSpec
  <1>1. NetInit => LifeInit
    BY DEF NetInit
  <1>2. NetInv /\ [NetNext]_vars => [LifeNext]_lifeVars
    BY NetStepIsLifeStep
  <1> QED
    BY <1>1, <1>2, NetInvariant, PTL DEF NetSpec, LifeSpec

(***************************************************************************)
(* While DRIVER_OK is set, every chain that the host can reach leads to    *)
(* memory that is allocated and mapped, for every queue size, on every     *)
(* path of Initialize and Shutdown and in every session.                   *)
(***************************************************************************)
THEOREM NetDmaSafe == NetSpec => []NoDmaToReleasedMemory
  <1>1. NetInv => NoDmaToReleasedMemory
    <2> SUFFICES ASSUME NetInv, Running
                 PROVE  /\ ~exited
                        /\ HostHeads(txRing, txHost) # {} => Holds({"txReq", "txReqMap"})
                        /\ \A d \in HostHeads(txRing, txHost) : txDesc[d] \in txBufs
                        /\ HostHeads(rxRing, rxHost) # {} => Holds(RxAux)
      BY DEF NoDmaToReleasedMemory
    <2>1. LifeInv /\ TxSession /\ RxSession
      BY DEF NetInv
    <2>2. ~exited
      BY <2>1 DEF LifeInv, StateAt, StatusAt, RunLabels, Running
    <2>3. \A i \in Idx : Ahead(i, i) = 0
      BY TxSizes, AheadType DEF ValidQueueSize
    <2>4. 0 \in Idx
      BY TxSizes DEF Idx, ValidQueueSize
    <2>5. CASE snpState = "Initialized"
      <3>1. pc = "idle" \/ pc = "ShutdownReset"
        BY <2>1, <2>5 DEF LifeInv, StatusAt, StateAt, InitLabels, Running
      <3>2. Holds(Resources)
        BY <2>1, <2>5, <3>1, HeldFacts
      <3>3. Holds({"txReq", "txReqMap"}) /\ Holds(RxAux)
        BY <3>2 DEF Holds, Resources, TrafficResources, TxAux, RxAux
      <3>4. TxDmaMapped
        BY <2>1, <2>5, TxInvMapped DEF TxSession
      <3> QED
        BY <2>2, <3>3, <3>4 DEF TxDmaMapped
    <2>6. CASE snpState # "Initialized"
      <3>1. HostHeads(txRing, txHost) = {}
        <4>1. txRing = ZeroRing(TxQueueSize) /\ txHost = IdleHost
          BY <2>1, <2>6 DEF TxSession, TxRingBlank
        <4>2. DOMAIN AvailWindow(txRing, txHost) = {}
          BY <2>3, <2>4, <4>1 DEF AvailWindow, ZeroRing, IdleHost
        <4> QED
          BY <4>1, <4>2 DEF HostHeads, AvailHeads, IdleHost
      <3>2. CASE "rx" \in posted
        <4>1. Holds(RxAux)
          BY <2>1, <3>2, BooksBack DEF RunningDeviceIsBacked, Running
        <4> QED
          BY <2>2, <3>1, <4>1
      <3>3. CASE "rx" \notin posted
        <4>1. rxRing = ZeroRing(RxQueueSize) /\ rxHost = IdleHost
          BY <2>1, <3>3 DEF RxSession, RxBlank
        <4>2. DOMAIN AvailWindow(rxRing, rxHost) = {}
          BY <2>3, <2>4, <4>1 DEF AvailWindow, ZeroRing, IdleHost
        <4>3. HostHeads(rxRing, rxHost) = {}
          BY <4>1, <4>2 DEF HostHeads, AvailHeads, IdleHost
        <4> QED
          BY <2>2, <3>1, <4>3
      <3> QED
        BY <3>2, <3>3
    <2> QED
      BY <2>5, <2>6
  <1> QED
    BY <1>1, NetInvariant, PTL

(***************************************************************************)
(* In every session, the first or a later one, no chain and no packet is   *)
(* lost, duplicated or left over; between the sessions no buffer is mapped *)
(* or lent.                                                                *)
(***************************************************************************)
THEOREM NetSessionsIndependent == NetSpec => []SessionsAreIndependent
  <1>1. NetInv => SessionsAreIndependent
    <2> SUFFICES ASSUME NetInv PROVE SessionsAreIndependent
      OBVIOUS
    <2>1. LifeInv /\ TxSession /\ RxSession
      BY DEF NetInv
    <2>2. ASSUME pc = "idle", snpState = "Initialized", ~exited
          PROVE  TxChains /\ TxAsserts /\ TxDmaMapped /\ RxChains /\ DeliveredInOrder
      <3>1. TxInv /\ RxInv
        BY <2>1, <2>2, UpMeansRunning DEF TxSession, RxSession
      <3> QED
        BY <3>1, TxInvMapped, TxInvAsserts DEF TxInv, RxInv
    <2>3. held["txColl"] = 0 \/ snpState # "Initialized" => txBufs = {} /\ lent = {}
      BY <2>1 DEF TxSession, TxClean
    <2> QED
      BY <2>2, <2>3 DEF SessionsAreIndependent
  <1> QED
    BY <1>1, NetInvariant, PTL
=============================================================================
