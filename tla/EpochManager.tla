---------------------------- MODULE EpochManager ----------------------------
(***************************************************************************)
(* The epoch manager shared by every process through the epoch shelf:     *)
(* EpochManager::enter_critical, exit_critical, reported_epoch and         *)
(* frontier_epoch (src/src/epoch_manager.cc) forward to EpochManagerImpl,  *)
(* whose source is not in the repository; its behaviour here follows spec  *)
(* section 4.3.                                                            *)
(*                                                                         *)
(* entered[p] is the epoch participant p entered its critical region at,  *)
(* 0 when it is outside one.  The manager advances the frontier only once  *)
(* the reported epoch has caught up with it (frontier = reported + 1), so  *)
(* the frontier is at most two epochs ahead of the reported epoch, the gap *)
(* the "+3" rule of EpochZoneHeap::Free is sized for.                      *)
(***************************************************************************)
EXTENDS Naturals, FiniteSets

CONSTANTS
    Participants,   \* threads, of any process, that enter critical regions
    MaxEpoch        \* bound on the frontier epoch

ASSUME MaxEpoch >= 1

VARIABLES
    frontier,       \* frontier_epoch(): the epoch new critical regions enter
    reported,       \* reported_epoch(): the last epoch known quiescent
    entered         \* per participant: its entry epoch, 0 when outside

emVars == <<frontier, reported, entered>>

ActiveEpochs == {entered[p] : p \in {q \in Participants : entered[q] /= 0}}

\* The largest epoch that no active critical region entered at or before.
QuiescentEpoch ==
    IF ActiveEpochs = {} THEN frontier - 1
    ELSE (CHOOSE m \in ActiveEpochs : \A a \in ActiveEpochs : m <= a) - 1

EMTypeOK ==
    /\ frontier \in 1..MaxEpoch
    /\ reported \in 0..MaxEpoch
    /\ entered \in [Participants -> 0..MaxEpoch]

EMInit ==
    /\ frontier = 1
    /\ reported = 0
    /\ entered = [p \in Participants |-> 0]

\* enter_critical(): p publishes that it reads at the current frontier.
enter_critical(p) ==
    /\ entered[p] = 0
    /\ entered' = [entered EXCEPT ![p] = frontier]
    /\ UNCHANGED <<frontier, reported>>

\* exit_critical(): p retracts its publication.
exit_critical(p) ==
    /\ entered[p] /= 0
    /\ entered' = [entered EXCEPT ![p] = 0]
    /\ UNCHANGED <<frontier, reported>>

\* The manager moves the frontier on once every reader is at it.
AdvanceFrontier ==
    /\ reported = frontier - 1
    /\ frontier < MaxEpoch
    /\ frontier' = frontier + 1
    /\ UNCHANGED <<reported, entered>>

\* The manager reports the epochs no active region can still be in.
ReportEpoch ==
    /\ QuiescentEpoch > reported
    /\ reported' = QuiescentEpoch
    /\ UNCHANGED <<frontier, entered>>

EMNext ==
    \/ \E p \in Participants : enter_critical(p) \/ exit_critical(p)
    \/ AdvanceFrontier
    \/ ReportEpoch

=============================================================================
