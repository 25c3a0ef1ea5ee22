-------------------------- MODULE ProfileKeyProofs --------------------------
(***************************************************************************)
(* Proofs about ProfileKey, for any PINs, secrets and keys.                *)
(*                                                                         *)
(* None of the three safety properties is inductive.  What they need is an *)
(* account of every point the process can be interrupted at: what is on    *)
(* the disk there, what the slots hold, and which of the two will open the *)
(* file next.  Custody says what holds of the disk at all times, Slots and *)
(* Agreed what the process has made sure of at each stage.                 *)
(***************************************************************************)
EXTENDS ProfileKey, TLAPS

(* The file is well formed.                                                *)
Shape ==
    /\ file.form = "absent" => file = NoFile
    /\ file.form = "none" => file.with = NoSecret
    /\ file.form = "pin" => file.with \in Pins
    /\ file.form = "keychain" => file.with \in Wraps
    /\ file.form # "absent" => file.key \in Keys

(* A wrapped file's secret is in the store, and objects are sealed with    *)
(* the file's key; otherwise someone took them away or gave them up.       *)
Custody ==
    /\ file.form = "keychain" => entry = file.with \/ file.key \in lost
    /\ \A k \in objects : k \in given \cup lost \/ k = file.key
    /\ \A k \in objects \ given :
          k = file.key \/ (file.form = "absent" /\ pc \in {"off", "ask_missing"})
    /\ pc = "reset_file" => objects \subseteq given

(* What the two slots hold at each stage.                                  *)
Slots ==
    /\ pc \notin {"verify", "convert", "load", "change_verify", "change_write"}
          => pin = NoSecret /\ wrap = NoSecret
    /\ pc \in {"verify", "convert", "change_verify"} => pin = NoSecret /\ wrap # NoSecret
    /\ pc \in {"verify", "convert"} => prop = "keychain" /\ ~Encrypted
    /\ pc = "convert" => entry = wrap /\ file.form = "none"
    /\ pc = "load" => /\ wrap # NoSecret => pin = NoSecret /\ prop = "keychain" /\ entry = wrap
                      /\ pin # NoSecret => prop = "pin"
                      /\ pin = NoSecret /\ wrap = NoSecret => prop = "none" \/ Encrypted
                      /\ file.form # "absent" =>
                            \/ prop = file.form
                            \/ Encrypted /\ pin = NoSecret /\ wrap = NoSecret
    /\ pc = "drop" => prop = "none" /\ file.form = "none"
    /\ pc \in {"reset_entry", "reset_setting"} => file.form = "absent"
    /\ pc = "change_verify" => to = "keychain" /\ prop # "keychain"
    /\ pc = "change_write" =>
          /\ to = "keychain" => /\ prop # "keychain"
                                /\ pin = NoSecret /\ wrap # NoSecret /\ entry = wrap
          /\ to = "pin" => pin # NoSecret /\ wrap = NoSecret
          /\ to = "none" => pin = NoSecret /\ wrap = NoSecret /\ prop # "none"

(* The setting and the property agree in a process, and in a session both  *)
(* with the file, up to the writes of a change that are still to come.     *)
Agreed ==
    /\ pc # "off" => stored = prop
    /\ pc \in {"open", "change_verify", "change_write", "change_drop", "change_set"}
          => root = file.key /\ file.form # "absent"
    /\ pc \in {"open", "change_verify", "change_write"} => prop = file.form
    /\ pc \in {"change_drop", "change_set"} => to = file.form
    /\ pc = "change_drop" => file.form # "keychain"

(* A session has a root key, be it a Container.                            *)
Rooted ==
    pc \in {"open", "change_verify", "change_write", "change_drop", "change_set"} => root # NoKey

Inv == TypeOK /\ Rooted /\ (~strayed => Shape /\ Custody /\ Slots /\ Agreed)

-----------------------------------------------------------------------------
(* A profile as the program first finds it is in order.                    *)
LEMMA InitInv == Init => Inv
<1> SUFFICES ASSUME Init PROVE Inv
  OBVIOUS
<1> USE KeyAssumption DEF Inv, TypeOK, Rooted, Files, Stages, Protections, NoFile, Encrypted, Shape,
                          Custody, Slots, Agreed
<1>1. CASE file = NoFile /\ objects = {}
  BY <1>1 DEF Init
<1>2. ASSUME NEW k \in Keys, file = SealKey(NoSecret, NoSecret, k), objects = {k} PROVE Inv
  <2>1. file = [form |-> "none", with |-> NoSecret, key |-> k]
    BY <1>2 DEF SealKey
  <2>2. file.form = "none" /\ file.with = NoSecret /\ file.key = k /\ file \in Files
    BY <2>1
  <2>3. /\ pc = "off" /\ prop = "none" /\ to = "none" /\ stored \in Protections
        /\ pin = NoSecret /\ wrap = NoSecret /\ root = NoKey /\ entry = NoSecret
        /\ given = {} /\ lost = {} /\ strayed = FALSE
    BY DEF Init
  <2>4. TypeOK
    BY <1>2, <2>2, <2>3
  <2>5. QED
    BY <1>2, <2>2, <2>3, <2>4
<1>3. QED
  BY <1>1, <1>2 DEF Init

-----------------------------------------------------------------------------
(* Types, also in a session that runs on a Container.                      *)

(* Opening keeps the types.                                                *)
LEMMA TypesOpening ==
  ASSUME TypeOK, Rooted, Opening
  PROVE  TypeOK' /\ Rooted'
<1> USE KeyAssumption DEF TypeOK, Rooted, Files, Stages, Protections, NoFile, Step, disk, slots,
                          history
<1>1. CASE Start
  BY <1>1 DEF Start
<1>2. CASE ConfirmMissing
  BY <1>2 DEF ConfirmMissing, ConfirmLoss
<1>3. CASE NotWrapped
  BY <1>3 DEF NotWrapped
<1>4. CASE Wrapped
  BY <1>4 DEF Wrapped, EntryOpens, UnsealKey
<1>5. CASE LockedOut
  BY <1>5 DEF LockedOut
<1>6. CASE UnwrapFile
  BY <1>6 DEF UnwrapFile, EntryOpens, UnsealKey, SealKey
<1>7. CASE DropEntry
  BY <1>7 DEF DropEntry, RemoveEntry
<1>8. CASE StoreUnavailable
  BY <1>8 DEF StoreUnavailable, TurnProtectionOff
<1>9. ASSUME NEW w \in Wraps, WriteWrapSecret(w) PROVE TypeOK' /\ Rooted'
  BY <1>9 DEF WriteWrapSecret, WriteSecret
<1>10. CASE SecretVerified
  BY <1>10 DEF SecretVerified, ReadsBack
<1>11. CASE SecretNotReadBack
  BY <1>11 DEF SecretNotReadBack, RemoveEntry, TurnProtectionOff
<1>12. CASE WrapFile
  BY <1>12 DEF WrapFile, SealKey
<1>13. CASE WrapFileFails
  BY <1>13 DEF WrapFileFails, RemoveEntry
<1>14. ASSUME NEW p \in Pins, CreatePin(p) PROVE TypeOK' /\ Rooted'
  BY <1>14 DEF CreatePin
<1>15. ASSUME NEW p \in Pins, AnswerPin(p) PROVE TypeOK' /\ Rooted'
  BY <1>15 DEF AnswerPin, UnsealKey
<1>16. CASE PinSetButPlaintext
  BY <1>16 DEF PinSetButPlaintext, TurnProtectionOff
<1>17. CASE DeclineReset
  BY <1>17 DEF DeclineReset, AnswerPin, UnsealKey
<1>18. CASE ResetForgottenPin
  BY <1>18 DEF ResetForgottenPin, ConfirmLoss
<1>19. CASE ResetLockedOut
  BY <1>19 DEF ResetLockedOut, ConfirmLoss
<1>20. CASE ResetKeyStorage
  BY <1>20 DEF ResetKeyStorage
<1>21. CASE ResetEntry
  BY <1>21 DEF ResetEntry, RemoveEntry
<1>22. CASE ResetSetting
  BY <1>22 DEF ResetSetting, TurnProtectionOff
<1>23. ASSUME NEW k \in Keys, NewRootKey(k) PROVE TypeOK' /\ Rooted'
  BY <1>23 DEF NewRootKey, SealKey
<1>24. CASE LoadRootKey
  BY <1>24 DEF LoadRootKey, UnsealKey
<1>q. QED
  BY <1>1, <1>2, <1>3, <1>4, <1>5, <1>6, <1>7, <1>8, <1>9, <1>10, <1>11, <1>12, <1>13,
     <1>14, <1>15, <1>16, <1>17, <1>18, <1>19, <1>20, <1>21, <1>22, <1>23, <1>24 DEF Opening

(* So does a session: it can only store objects under a key it has.        *)
LEMMA TypesSession ==
  ASSUME TypeOK, Rooted, Session
  PROVE  TypeOK' /\ Rooted'
<1> USE KeyAssumption DEF TypeOK, Rooted, Files, Stages, Protections, NoFile, Step, disk, slots,
                          history
<1>1. CASE StoreObject
  BY <1>1 DEF StoreObject
<1>2. CASE KeepProtection
  BY <1>2 DEF KeepProtection
<1>3. ASSUME NEW p \in Pins, ChangeToPin(p) PROVE TypeOK' /\ Rooted'
  BY <1>3 DEF ChangeToPin
<1>4. CASE ChangeToNone
  BY <1>4 DEF ChangeToNone
<1>5. ASSUME NEW w \in Wraps, ChangeToKeychain(w) PROVE TypeOK' /\ Rooted'
  BY <1>5 DEF ChangeToKeychain, WriteSecret
<1>6. CASE ChangeVerified
  BY <1>6 DEF ChangeVerified, ReadsBack
<1>7. CASE Rollback
  BY <1>7 DEF Rollback, RemoveEntry
<1>8. CASE ChangeWrite
  BY <1>8 DEF ChangeWrite, SealKey
<1>9. CASE ChangeDrop
  BY <1>9 DEF ChangeDrop, RemoveEntry
<1>10. CASE ChangeSet
  BY <1>10 DEF ChangeSet
<1>q. QED
  BY <1>1, <1>2, <1>3, <1>4, <1>5, <1>6, <1>7, <1>8, <1>9, <1>10 DEF Session

(* And so does what happens to the process and its files.                  *)
LEMMA TypesOutside ==
  ASSUME TypeOK, Rooted, ProcessEnds \/ FileVanishes \/ EntryVanishes
  PROVE  TypeOK' /\ Rooted'
<1> USE KeyAssumption DEF TypeOK, Rooted, Files, Stages, Protections, NoFile, Step, disk, slots,
                          history
<1>1. CASE ProcessEnds
  BY <1>1 DEF ProcessEnds
<1>2. CASE FileVanishes
  BY <1>2 DEF FileVanishes
<1>3. CASE EntryVanishes
  BY <1>3 DEF EntryVanishes
<1>q. QED
  BY <1>1, <1>2, <1>3

-----------------------------------------------------------------------------
(* Custody of the key, as long as no session strays.                       *)

(* Opening leaves the key openable at every write, and reaches a session   *)
(* only with a secret that opens the file.                                 *)
LEMMA CustodyOpening ==
  ASSUME Inv, ~strayed', Opening
  PROVE  (Shape /\ Custody /\ Slots /\ Agreed)'
<1> USE KeyAssumption DEF Inv, TypeOK, Files, Stages, Protections, NoFile, Encrypted, Step, disk,
                          slots, history, Shape, Custody, Slots, Agreed
<1>1. CASE Start
  BY <1>1 DEF Start
<1>2. CASE ConfirmMissing
  BY <1>2 DEF ConfirmMissing, ConfirmLoss
<1>3. CASE NotWrapped
  BY <1>3 DEF NotWrapped
<1>4. CASE Wrapped
  BY <1>4 DEF Wrapped, EntryOpens, UnsealKey
<1>5. CASE LockedOut
  BY <1>5 DEF LockedOut
<1>6. CASE UnwrapFile
  BY <1>6 DEF UnwrapFile, EntryOpens, UnsealKey, SealKey
<1>7. CASE DropEntry
  BY <1>7 DEF DropEntry, RemoveEntry
<1>8. CASE StoreUnavailable
  BY <1>8 DEF StoreUnavailable, TurnProtectionOff
<1>9. ASSUME NEW w \in Wraps, WriteWrapSecret(w) PROVE (Shape /\ Custody /\ Slots /\ Agreed)'
  BY <1>9 DEF WriteWrapSecret, WriteSecret
<1>10. CASE SecretVerified
  BY <1>10 DEF SecretVerified, ReadsBack
<1>11. CASE SecretNotReadBack
  BY <1>11 DEF SecretNotReadBack, RemoveEntry, TurnProtectionOff
<1>12. CASE WrapFile
  BY <1>12 DEF WrapFile, SealKey
<1>13. CASE WrapFileFails
  BY <1>13 DEF WrapFileFails, RemoveEntry
<1>14. ASSUME NEW p \in Pins, CreatePin(p) PROVE (Shape /\ Custody /\ Slots /\ Agreed)'
  BY <1>14 DEF CreatePin
<1>15. ASSUME NEW p \in Pins, AnswerPin(p) PROVE (Shape /\ Custody /\ Slots /\ Agreed)'
  BY <1>15 DEF AnswerPin, UnsealKey
<1>16. CASE PinSetButPlaintext
  BY <1>16 DEF PinSetButPlaintext, TurnProtectionOff
<1>17. CASE DeclineReset
  BY <1>17 DEF DeclineReset, AnswerPin, UnsealKey
<1>18. CASE ResetForgottenPin
  BY <1>18 DEF ResetForgottenPin, ConfirmLoss
<1>19. CASE ResetLockedOut
  BY <1>19 DEF ResetLockedOut, ConfirmLoss
<1>20. CASE ResetKeyStorage
  BY <1>20 DEF ResetKeyStorage
<1>21. CASE ResetEntry
  BY <1>21 DEF ResetEntry, RemoveEntry
<1>22. CASE ResetSetting
  BY <1>22 DEF ResetSetting, TurnProtectionOff
<1>23. ASSUME NEW k \in Keys, NewRootKey(k) PROVE (Shape /\ Custody /\ Slots /\ Agreed)'
  BY <1>23 DEF NewRootKey, SealKey
<1>24. CASE LoadRootKey
  BY <1>24 DEF LoadRootKey, UnsealKey
<1>q. QED
  BY <1>1, <1>2, <1>3, <1>4, <1>5, <1>6, <1>7, <1>8, <1>9, <1>10, <1>11, <1>12, <1>13,
     <1>14, <1>15, <1>16, <1>17, <1>18, <1>19, <1>20, <1>21, <1>22, <1>23, <1>24 DEF Opening

(* So does a change of protection: the file is rewritten only when its new *)
(* secret is in place, and the old one goes only after that.               *)
LEMMA CustodySession ==
  ASSUME Inv, ~strayed', Session
  PROVE  (Shape /\ Custody /\ Slots /\ Agreed)'
<1> USE KeyAssumption DEF Inv, TypeOK, Files, Stages, Protections, NoFile, Encrypted, Step, disk,
                          slots, history, Shape, Custody, Slots, Agreed
<1>1. CASE StoreObject
  BY <1>1 DEF StoreObject
<1>2. CASE KeepProtection
  BY <1>2 DEF KeepProtection
<1>3. ASSUME NEW p \in Pins, ChangeToPin(p) PROVE (Shape /\ Custody /\ Slots /\ Agreed)'
  BY <1>3 DEF ChangeToPin
<1>4. CASE ChangeToNone
  BY <1>4 DEF ChangeToNone
<1>5. ASSUME NEW w \in Wraps, ChangeToKeychain(w) PROVE (Shape /\ Custody /\ Slots /\ Agreed)'
  BY <1>5 DEF ChangeToKeychain, WriteSecret
<1>6. CASE ChangeVerified
  BY <1>6 DEF ChangeVerified, ReadsBack
<1>7. CASE Rollback
  BY <1>7 DEF Rollback, RemoveEntry
<1>8. CASE ChangeWrite
  BY <1>8 DEF ChangeWrite, SealKey
<1>9. CASE ChangeDrop
  BY <1>9 DEF ChangeDrop, RemoveEntry
<1>10. CASE ChangeSet
  BY <1>10 DEF ChangeSet
<1>q. QED
  BY <1>1, <1>2, <1>3, <1>4, <1>5, <1>6, <1>7, <1>8, <1>9, <1>10 DEF Session

(* What is interrupted or deleted is accounted for.                        *)
LEMMA CustodyOutside ==
  ASSUME Inv, ~strayed', ProcessEnds \/ FileVanishes \/ EntryVanishes
  PROVE  (Shape /\ Custody /\ Slots /\ Agreed)'
<1> USE KeyAssumption DEF Inv, TypeOK, Files, Stages, Protections, NoFile, Encrypted, Step, disk,
                          slots, history, Shape, Custody, Slots, Agreed
<1>1. CASE ProcessEnds
  BY <1>1 DEF ProcessEnds
<1>2. CASE FileVanishes
  BY <1>2 DEF FileVanishes
<1>3. CASE EntryVanishes
  BY <1>3 DEF EntryVanishes
<1>q. QED
  BY <1>1, <1>2, <1>3

-----------------------------------------------------------------------------
(* Every step of the program or of its surroundings keeps the invariant.   *)
LEMMA StepInv == Inv /\ [Next]_vars => Inv'
<1> SUFFICES ASSUME Inv, [Next]_vars PROVE Inv'
  OBVIOUS
<1>1. CASE Next
  <2>1. TypeOK' /\ Rooted'
    BY <1>1, TypesOpening, TypesSession, TypesOutside DEF Inv, Next
  <2>2. ASSUME ~strayed' PROVE (Shape /\ Custody /\ Slots /\ Agreed)'
    BY <1>1, <2>2, CustodyOpening, CustodySession, CustodyOutside DEF Next
  <2>3. QED
    BY <2>1, <2>2 DEF Inv
<1>2. CASE UNCHANGED vars
  BY <1>2 DEF Inv, vars, disk, slots, history, TypeOK, Rooted, Files, Shape, Custody, Slots, Agreed,
              Encrypted, NoFile
<1>3. QED
  BY <1>1, <1>2

(* The invariant holds of every behaviour.                                 *)
LEMMA AlwaysInv == Spec => []Inv
<1>1. QED
  BY InitInv, StepInv, PTL DEF Spec

(* The key file, the setting, the store and the process's slots keep their *)
(* types through every start, change, reset and interruption.              *)
THEOREM KeyTypes == Spec => []TypeOK
<1>1. Inv => TypeOK
  BY DEF Inv
<1>2. QED
  BY <1>1, AlwaysInv, PTL

(* ChangeProtection() and ResolveWrapSecret() never leave the key of a     *)
(* stored object without a secret that opens it.                           *)
THEOREM KeyNeverLost == Spec => []NeverByNeither
<1>1. Inv => NeverByNeither
  BY DEF Inv, Custody, NeverByNeither, Openable
<1>2. QED
  BY <1>1, AlwaysInv, PTL

(* ProfileLoader::Open() gives a session the key of every object that the  *)
(* user has not given up.                                                  *)
THEOREM KeyReadsAll == Spec => []SessionReadsAll
<1>1. Inv => SessionReadsAll
  BY DEF Inv, Custody, Agreed, SessionReadsAll
<1>2. QED
  BY <1>1, AlwaysInv, PTL

(* resolve_secret() and ApplySettings() leave the setting, the property    *)
(* and the file in agreement whenever a session is at rest.                *)
THEOREM KeyProtectionAgrees == Spec => []ProtectionAgrees
<1>1. Inv => ProtectionAgrees
  BY DEF Inv, Agreed, ProtectionAgrees
<1>2. QED
  BY <1>1, AlwaysInv, PTL

=============================================================================
