--------------------------- MODULE EmergencyGuard ---------------------------
(***************************************************************************)
(* The pause switch of contracts/emergency_guard: a mask of paused          *)
(* operations, a list of admins and the number of them that must sign.      *)
(* The crate offers it twice, as a contract (EmergencyGuard) and to host    *)
(* contracts (DefaultEmergencyGuard); the two differ in how an admin is     *)
(* replaced.  Every call runs alone and leaves no trace when it fails.      *)
(***************************************************************************)
EXTENDS Integers, SequencesExt

CONSTANTS
  People,    \* who may be an admin
  Ops,       \* the operations that have a bit
  Founders,  \* lists of admins initialize may be called with
  MaxSigs,   \* bound: how many signers a call lists
  MaxAdmins, \* bound: length of the list of admins
  Embedded   \* TRUE: DefaultEmergencyGuard; FALSE: the contract

ASSUME GuardAssumption ==
  /\ \A list \in Founders : list \in Seq(People) /\ Len(list) <= MaxAdmins
  /\ MaxSigs \in Nat /\ MaxAdmins \in Nat
  /\ Embedded \in BOOLEAN

VARIABLES
  paused,     \* the bits that are set
  admins,     \* the stored list
  threshold,  \* SignatureThreshold; 0 before initialize
  signed      \* history: who authorised the last call

guardVars == <<paused, admins, threshold, signed>>

Admins == ToSet(admins)
Signers == BoundedSeq(People, MaxSigs)

GuardTypeOK ==
  /\ paused \subseteq Ops
  /\ admins \in Seq(People) /\ Len(admins) <= MaxAdmins
  /\ threshold \in 0..Len(admins)
  /\ signed \subseteq People

GuardInit ==
  /\ paused = {} /\ admins = << >> /\ threshold = 0
  /\ signed = {}

(* Mutant: a signer listed twice counts twice.                            *)
MultiSigCounted(approvers) ==
  /\ threshold # 0
  /\ ToSet(approvers) \subseteq Admins
  /\ Len(approvers) >= threshold
  /\ signed' = ToSet(approvers)

\* Every listed signer is an admin and signs, each counts once, and they are
\* enough.
CheckMultiSig(approvers) ==
  /\ threshold # 0
  /\ ToSet(approvers) \subseteq Admins
  /\ Cardinality(ToSet(approvers)) >= threshold
  /\ signed' = ToSet(approvers)

\* The list is built again, without some of its members.
Without(list, gone) ==
  LET kept[i \in 0..Len(list)] ==
        IF i = 0 THEN << >>
        ELSE IF list[i] \in gone THEN kept[i - 1] ELSE Append(kept[i - 1], list[i])
  IN  kept[Len(list)]

-----------------------------------------------------------------------------
(* Mutant: the threshold is not compared with the number of admins.       *)
InitializeGuardUnchecked(list, t) ==
  /\ threshold = 0
  /\ t # 0
  /\ admins' = list /\ threshold' = t
  /\ paused' = {}
  /\ UNCHANGED signed

InitializeGuard(list, t) ==
  /\ threshold = 0
  /\ t # 0 /\ t <= Len(list)
  /\ admins' = list /\ threshold' = t
  /\ paused' = {}
  /\ UNCHANGED signed

\* One admin is enough, whatever bits the mask names.
SetPause(admin, mask, on) ==
  /\ admin \in Admins
  /\ paused' = IF on THEN paused \cup mask ELSE paused \ mask
  /\ signed' = {admin}
  /\ UNCHANGED <<admins, threshold>>

EmergencyPause(approvers) ==
  /\ CheckMultiSig(approvers)
  /\ paused' = Ops
  /\ UNCHANGED <<admins, threshold>>

Resume(approvers) ==
  /\ CheckMultiSig(approvers)
  /\ paused' = {}
  /\ UNCHANGED <<admins, threshold>>

AddAdmin(approvers, new) ==
  /\ CheckMultiSig(approvers)
  /\ Len(admins) < MaxAdmins
  /\ admins' = IF new \in Admins THEN admins ELSE Append(admins, new)
  /\ UNCHANGED <<paused, threshold>>

(* Mutant: the last admin the threshold needs may go.                     *)
RemoveOneTooMany(approvers, admin) ==
  /\ CheckMultiSig(approvers)
  /\ Len(admins) >= threshold
  /\ admin \in Admins
  /\ admins' = Without(admins, {admin})
  /\ UNCHANGED <<paused, threshold>>

\* The list's length is compared; all the copies of the admin go.
RemoveAdmin(approvers, admin) ==
  /\ CheckMultiSig(approvers)
  /\ Len(admins) > threshold
  /\ admin \in Admins
  /\ admins' = Without(admins, {admin})
  /\ UNCHANGED <<paused, threshold>>

\* DefaultEmergencyGuard: neither the old nor the new admin is carried over,
\* and the new one is added once.
Swapped(old, new) == Append(Without(admins, {old, new}), new)

\* The contract: the new admin takes the old one's place unless it is there
\* already, nobody is carried over twice, and the new one is added again.
Pushed(old, new) ==
  LET place(x) == IF x = old THEN new ELSE x
      once(list, x) == IF place(x) \in ToSet(list)
                       THEN list ELSE Append(list, place(x))
  IN  Append(FoldLeft(once, << >>, admins), new)

RotateAdmin(approvers, old, new) ==
  LET list == IF Embedded THEN Swapped(old, new) ELSE Pushed(old, new)
  IN  /\ CheckMultiSig(approvers)
      /\ old \in Admins
      /\ threshold <= Len(list) /\ Len(list) <= MaxAdmins
      /\ admins' = list
      /\ UNCHANGED <<paused, threshold>>

GuardNext ==
  \/ \E list \in Founders, t \in 0..MaxAdmins : InitializeGuard(list, t)
  \/ \E admin \in People, mask \in SUBSET Ops, on \in BOOLEAN :
       SetPause(admin, mask, on)
  \/ \E approvers \in Signers :
       \/ EmergencyPause(approvers) \/ Resume(approvers)
       \/ \E x \in People :
            \/ AddAdmin(approvers, x) \/ RemoveAdmin(approvers, x)
            \/ \E y \in People : RotateAdmin(approvers, x, y)

GuardSpec == GuardInit /\ [][GuardNext]_guardVars

-----------------------------------------------------------------------------
\* Properties

\* Whatever admins were added, removed or replaced by one another, there are
\* as many persons left as must sign: a paused contract can be resumed.
QuorumPossible == Cardinality(Admins) >= threshold

\* Who the admins are is decided by as many different persons, admins until
\* then, as must sign, however the signers of a call are listed.
DecidedByQuorum ==
  [][threshold # 0 /\ admins' # admins =>
       /\ Cardinality(signed') >= threshold
       /\ signed' \subseteq Admins]_guardVars

\* Each admin is listed once, also after one was replaced by another.
NoTwins == IsInjective(admins)
=============================================================================
