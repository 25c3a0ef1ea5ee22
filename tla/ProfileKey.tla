----------------------------- MODULE ProfileKey -----------------------------
(***************************************************************************)
(* The profile's root key and what protects it at rest: opening a profile  *)
(* (ProfileLoader::Open, core/profile/ProfileLoader.cpp), the key manager  *)
(* (ProfileSecureKeyManager.cpp), and the settings page that changes the   *)
(* protection (ui/dialog/settings/SettingsAdvanced.cpp).                   *)
(*                                                                         *)
(* The key file, the credential store and the stored setting are written   *)
(* one after the other, and the process may end between any two writes.    *)
(* An action is the code from one durable write to the next; each write is *)
(* atomic, as QSaveFile makes the file's.  A write that fails changes      *)
(* nothing.  The profile is a directory that may use the system keychain   *)
(* and holds one key at a time: packages, and rotation, are left out.      *)
(***************************************************************************)
EXTENDS Naturals

CONSTANTS
    Pins,        \* PINs the user may choose
    Wraps,       \* secrets the credential store may be given
    NoSecret,    \* an empty GFBuffer in either slot
    Keys,        \* root keys that may be generated
    NoKey,       \* UnsealKey() returned nothing
    Container    \* the sealed file's own bytes, taken for a key

ASSUME KeyAssumption ==
    /\ NoSecret \notin Pins \cup Wraps /\ Pins \cap Wraps = {}
    /\ Container \notin Keys /\ NoKey \notin Keys /\ NoKey # Container

VARIABLES
    \* durable
    file,        \* app.key: how it is sealed, with what, and the key inside
    entry,       \* this profile's account in the credential store
    stored,      \* SettingItems::kAppKeyProtection
    objects,     \* keys the stored data objects are sealed with
    \* the running process
    pc,          \* how far it is
    prop,        \* GFAppKeyProtection: the protection in effect
    pin, wrap,   \* the two slots a secret is passed in
    to,          \* the protection a change in the settings asks for
    root,        \* RootKey()
    \* history
    given,       \* keys whose loss the user has confirmed
    lost,        \* keys that went with a file or an entry deleted from outside
    strayed      \* a session has run on a Container

disk == <<file, entry, stored, objects>>
slots == <<pin, wrap>>
history == <<given, lost, strayed>>
vars == <<disk, pc, prop, slots, to, root, history>>

Protections == {"none", "keychain", "pin"}

Stages == {"off", "ask_missing", "resolve", "verify", "convert", "drop", "locked",
           "reset_file", "reset_entry", "reset_setting", "load", "open",
           "change_verify", "change_write", "change_drop", "change_set"}

NoFile == [form |-> "absent", with |-> NoSecret, key |-> NoKey]

(* IsEncryptedBuffer(): a container carries a magic prefix, a key does not,*)
(* and nothing in it says which kind of secret it was sealed with.         *)
Encrypted == file.form \in {"pin", "keychain"}

SealKey(p, w, k) ==
    IF w # NoSecret THEN [form |-> "keychain", with |-> w, key |-> k]
    ELSE IF p # NoSecret THEN [form |-> "pin", with |-> p, key |-> k]
    ELSE [form |-> "none", with |-> NoSecret, key |-> k]

(* Without a secret the bytes are returned as they are, container or not.  *)
UnsealKey(p, w, f) ==
    IF w # NoSecret THEN (IF f.form = "keychain" /\ f.with = w THEN f.key ELSE NoKey)
    ELSE IF p # NoSecret THEN (IF f.form = "pin" /\ f.with = p THEN f.key ELSE NoKey)
    ELSE (IF f.form = "none" THEN f.key ELSE Container)

(* A profile no one has opened, or one written before protections existed; *)
(* the setting may have been made in advance.                              *)
Init ==
    /\ \/ file = NoFile /\ objects = {}
       \/ \E k \in Keys : file = SealKey(NoSecret, NoSecret, k) /\ objects = {k}
    /\ entry = NoSecret
    /\ stored \in Protections
    /\ pc = "off" /\ prop = "none" /\ to = "none"
    /\ pin = NoSecret /\ wrap = NoSecret /\ root = NoKey
    /\ given = {} /\ lost = {} /\ strayed = FALSE

Step(from, next) == pc = from /\ pc' = next

(* SystemSecretStore::Remove(), whose result nobody looks at.              *)
RemoveEntry == entry' \in {NoSecret, entry}

TurnProtectionOff == stored' = "none" /\ prop' = "none"

(* Everything a new root key would orphan, or a reset destroys.            *)
ConfirmLoss == given' = given \cup objects \cup ({file.key} \cap Keys)

-----------------------------------------------------------------------------
(* Opening the profile.                                                    *)

(* Seeded fault: a missing key file is a fresh profile.                    *)
StartUnasked ==
    /\ Step("off", "resolve")
    /\ prop' = stored
    /\ UNCHANGED <<disk, slots, to, root, history>>

(* The property from the setting; then WouldOrphanSealedData().            *)
Start ==
    /\ pc = "off"
    /\ pc' = IF file.form = "absent" /\ objects # {} THEN "ask_missing" ELSE "resolve"
    /\ prop' = stored
    /\ UNCHANGED <<disk, slots, to, root, history>>

ConfirmMissing ==
    /\ Step("ask_missing", "resolve")
    /\ ConfirmLoss
    /\ UNCHANGED <<disk, prop, slots, to, root, lost, strayed>>

(* ResolveWrapSecret(), the file as it should be.                          *)
NotWrapped ==
    /\ Step("resolve", "load")
    /\ prop = "none" /\ ~Encrypted
    /\ UNCHANGED <<disk, prop, slots, to, root, history>>

EntryOpens == entry # NoSecret /\ UnsealKey(NoSecret, entry, file) # NoKey

Wrapped ==
    /\ Step("resolve", "load")
    /\ prop = "keychain" /\ Encrypted /\ EntryOpens
    /\ wrap' = entry
    /\ UNCHANGED <<disk, prop, pin, to, root, history>>

(* No store, nothing read from it although it was asked to unlock, or a    *)
(* secret that does not open the file.                                     *)
LockedOut ==
    /\ Step("resolve", "locked")
    /\ prop # "pin" /\ Encrypted
    /\ UNCHANGED <<disk, prop, slots, to, root, history>>

(* Protection is to go: the plaintext first, then the entry.               *)
UnwrapFile ==
    /\ Step("resolve", "drop")
    /\ prop = "none" /\ Encrypted /\ EntryOpens
    /\ file' = SealKey(NoSecret, NoSecret, UnsealKey(NoSecret, entry, file))
    /\ UNCHANGED <<entry, stored, objects, prop, slots, to, root, history>>

DropEntry ==
    /\ Step("drop", "load")
    /\ RemoveEntry
    /\ UNCHANGED <<file, stored, objects, prop, slots, to, root, history>>

(* Protection is to come, and no store can be used.                        *)
StoreUnavailable ==
    /\ Step("resolve", "load")
    /\ prop = "keychain" /\ ~Encrypted
    /\ TurnProtectionOff
    /\ UNCHANGED <<file, entry, objects, slots, to, root, history>>

(* A secret nothing has been sealed with yet; the store may accept it and  *)
(* keep nothing.                                                           *)
WriteSecret(w) ==
    /\ w \notin {entry, file.with}
    /\ entry' \in {w, entry}
    /\ wrap' = w

WriteWrapSecret(w) ==
    /\ Step("resolve", "verify")
    /\ prop = "keychain" /\ ~Encrypted
    /\ WriteSecret(w)
    /\ UNCHANGED <<file, stored, objects, prop, pin, to, root, history>>

(* Seeded fault: what the store accepted is taken to be there.             *)
ReadsBackAlways == TRUE

ReadsBack == entry = wrap

SecretVerified ==
    /\ Step("verify", IF file.form = "absent" THEN "load" ELSE "convert")
    /\ ReadsBack
    /\ UNCHANGED <<disk, prop, slots, to, root, history>>

(* It did not read back, or the store was locked meanwhile.                *)
SecretNotReadBack ==
    /\ Step("verify", "load")
    /\ RemoveEntry
    /\ wrap' = NoSecret
    /\ TurnProtectionOff
    /\ UNCHANGED <<file, objects, pin, to, root, history>>

WrapFile ==
    /\ Step("convert", "load")
    /\ file' = SealKey(NoSecret, wrap, file.key)
    /\ UNCHANGED <<entry, stored, objects, prop, slots, to, root, history>>

(* Not written: the entry is removed, and the start ends.                  *)
WrapFileFails ==
    /\ pc = "convert"
    /\ RemoveEntry
    /\ pc' = "off" /\ prop' = "none" /\ to' = "none" /\ root' = NoKey
    /\ pin' = NoSecret /\ wrap' = NoSecret
    /\ UNCHANGED <<file, stored, objects, history>>

-----------------------------------------------------------------------------
(* The same with a PIN.                                                    *)

CreatePin(p) ==
    /\ Step("resolve", "load")
    /\ prop = "pin" /\ file.form = "absent"
    /\ pin' = p
    /\ UNCHANGED <<disk, prop, wrap, to, root, history>>

PinSetButPlaintext ==
    /\ Step("resolve", "load")
    /\ prop = "pin" /\ file.form = "none"
    /\ TurnProtectionOff
    /\ UNCHANGED <<file, entry, objects, slots, to, root, history>>

(* Each attempt is unsealed before it is believed; a wrong PIN is asked    *)
(* for again.                                                              *)
AnswerPin(p) ==
    /\ Step("resolve", "load")
    /\ prop = "pin" /\ Encrypted
    /\ UnsealKey(p, NoSecret, file) # NoKey
    /\ pin' = p
    /\ UNCHANGED <<disk, prop, wrap, to, root, history>>

(* The user asks for a reset and declines to confirm it: the delegate      *)
(* answers with an empty PIN, which is tried like any other.               *)
DeclineReset == AnswerPin(NoSecret)

ResetForgottenPin ==
    /\ Step("resolve", "reset_file")
    /\ prop = "pin" /\ Encrypted
    /\ ConfirmLoss
    /\ UNCHANGED <<disk, prop, slots, to, root, lost, strayed>>

ResetLockedOut ==
    /\ Step("locked", "reset_file")
    /\ ConfirmLoss
    /\ UNCHANGED <<disk, prop, slots, to, root, lost, strayed>>

ResetKeyStorage ==
    /\ Step("reset_file", "reset_entry")
    /\ file' = NoFile
    /\ UNCHANGED <<entry, stored, objects, prop, slots, to, root, history>>

ResetEntry ==
    /\ Step("reset_entry", "reset_setting")
    /\ RemoveEntry
    /\ UNCHANGED <<file, stored, objects, prop, slots, to, root, history>>

ResetSetting ==
    /\ Step("reset_setting", "load")
    /\ TurnProtectionOff
    /\ UNCHANGED <<file, entry, objects, slots, to, root, history>>

(* new_root_key(): a key nothing has been sealed with.                     *)
NewRootKey(k) ==
    /\ Step("load", "open")
    /\ file.form = "absent"
    /\ k \notin objects \cup given \cup lost
    /\ file' = SealKey(pin, wrap, k)
    /\ root' = k
    /\ pin' = NoSecret /\ wrap' = NoSecret
    /\ UNCHANGED <<entry, stored, objects, prop, to, history>>

(* init_root_key(): the file is there.                                     *)
LoadRootKey ==
    /\ Step("load", "open")
    /\ file.form # "absent"
    /\ root' = UnsealKey(pin, wrap, file)
    /\ root' # NoKey
    /\ strayed' = (strayed \/ root' = Container)
    /\ pin' = NoSecret /\ wrap' = NoSecret
    /\ UNCHANGED <<disk, prop, to, given, lost>>

-----------------------------------------------------------------------------
(* The session.                                                            *)

StoreObject ==
    /\ pc = "open"
    /\ objects' = objects \cup {root}
    /\ UNCHANGED <<file, entry, stored, pc, prop, slots, to, root, history>>

(* Leaving a PIN, and changing it, needs it.                               *)
PinVerified == prop = "pin" => \E p \in Pins : UnsealKey(p, NoSecret, file) # NoKey

(* ApplySettings() with the protection as it is.                           *)
KeepProtection ==
    /\ pc = "open"
    /\ stored' = prop
    /\ UNCHANGED <<file, entry, objects, pc, prop, slots, to, root, history>>

(* To a PIN, or from one to the next: the latter is change_pin().          *)
ChangeToPin(p) ==
    /\ Step("open", "change_write")
    /\ PinVerified
    /\ to' = "pin" /\ pin' = p
    /\ UNCHANGED <<disk, prop, wrap, root, history>>

ChangeToNone ==
    /\ Step("open", "change_write")
    /\ prop # "none" /\ PinVerified
    /\ to' = "none"
    /\ UNCHANGED <<disk, prop, slots, root, history>>

ChangeToKeychain(w) ==
    /\ Step("open", "change_verify")
    /\ prop # "keychain" /\ PinVerified
    /\ WriteSecret(w)
    /\ to' = "keychain"
    /\ UNCHANGED <<file, stored, objects, prop, pin, root, history>>

ChangeVerified ==
    /\ Step("change_verify", "change_write")
    /\ ReadsBack
    /\ UNCHANGED <<disk, prop, slots, to, root, history>>

(* rollback(), and the page shows what it showed before.                   *)
Rollback ==
    /\ pc \in {"change_verify", "change_write"} /\ pc' = "open"
    /\ IF to = "keychain" THEN RemoveEntry ELSE UNCHANGED entry
    /\ pin' = NoSecret /\ wrap' = NoSecret
    /\ UNCHANGED <<file, stored, objects, prop, to, root, history>>

(* change_pin() is over with this: the protection stays what it was.       *)
ChangeWrite ==
    /\ Step("change_write", IF prop = "keychain" THEN "change_drop"
                            ELSE IF prop = to THEN "open" ELSE "change_set")
    /\ file' = SealKey(pin, wrap, root)
    /\ pin' = NoSecret /\ wrap' = NoSecret
    /\ UNCHANGED <<entry, stored, objects, prop, to, root, history>>

ChangeDrop ==
    /\ Step("change_drop", "change_set")
    /\ RemoveEntry
    /\ UNCHANGED <<file, stored, objects, prop, slots, to, root, history>>

(* Seeded fault: the property is what the process started with.            *)
ChangeSetStoredOnly ==
    /\ Step("change_set", "open")
    /\ stored' = to
    /\ UNCHANGED <<file, entry, objects, prop, slots, to, root, history>>

(* The property, and then the setting.                                     *)
ChangeSet ==
    /\ Step("change_set", "open")
    /\ prop' = to /\ stored' = to
    /\ UNCHANGED <<file, entry, objects, slots, to, root, history>>

-----------------------------------------------------------------------------
(* A refusal, a write that failed, an end the user asked for, or a crash:  *)
(* what is on the disk stays there.                                        *)
ProcessEnds ==
    /\ pc # "off"
    /\ pc' = "off" /\ prop' = "none" /\ to' = "none" /\ root' = NoKey
    /\ pin' = NoSecret /\ wrap' = NoSecret
    /\ UNCHANGED <<disk, history>>

(* The key file is deleted, or the keyring is: outside the program.        *)
FileVanishes ==
    /\ pc = "off" /\ file # NoFile
    /\ file' = NoFile
    /\ lost' = lost \cup ({file.key} \cap Keys)
    /\ UNCHANGED <<entry, stored, objects, pc, prop, slots, to, root, given, strayed>>

EntryVanishes ==
    /\ pc = "off" /\ entry # NoSecret
    /\ entry' = NoSecret
    /\ lost' = IF file.form = "keychain" THEN lost \cup ({file.key} \cap Keys) ELSE lost
    /\ UNCHANGED <<file, stored, objects, pc, prop, slots, to, root, given, strayed>>

Opening ==
    \/ Start \/ ConfirmMissing
    \/ NotWrapped \/ Wrapped \/ LockedOut \/ UnwrapFile \/ DropEntry \/ StoreUnavailable
    \/ \E w \in Wraps : WriteWrapSecret(w)
    \/ SecretVerified \/ SecretNotReadBack \/ WrapFile \/ WrapFileFails
    \/ \E p \in Pins : CreatePin(p) \/ AnswerPin(p)
    \/ PinSetButPlaintext \/ DeclineReset
    \/ ResetForgottenPin \/ ResetLockedOut \/ ResetKeyStorage \/ ResetEntry \/ ResetSetting
    \/ \E k \in Keys : NewRootKey(k)
    \/ LoadRootKey

Session ==
    \/ StoreObject \/ KeepProtection
    \/ \E p \in Pins : ChangeToPin(p)
    \/ ChangeToNone
    \/ \E w \in Wraps : ChangeToKeychain(w)
    \/ ChangeVerified \/ Rollback \/ ChangeWrite \/ ChangeDrop \/ ChangeSet

Next == Opening \/ Session \/ ProcessEnds \/ FileVanishes \/ EntryVanishes

Spec == Init /\ [][Next]_vars

-----------------------------------------------------------------------------
Files ==
    [form : {"absent", "none", "keychain", "pin"}, with : Pins \cup Wraps \cup {NoSecret},
     key : Keys \cup {NoKey, Container}]

(* The types of what is on the disk and of what the process holds.         *)
TypeOK ==
    /\ file \in Files
    /\ entry \in Wraps \cup {NoSecret}
    /\ stored \in Protections /\ prop \in Protections /\ to \in Protections
    /\ objects \in SUBSET (Keys \cup {Container})
    /\ pc \in Stages
    /\ pin \in Pins \cup {NoSecret} /\ wrap \in Wraps \cup {NoSecret}
    /\ root \in Keys \cup {NoKey, Container}
    /\ given \in SUBSET (Keys \cup {Container}) /\ lost \in SUBSET Keys
    /\ strayed \in BOOLEAN

(* The key k can be had from what is on the disk and what the user knows.  *)
Openable(k) == file.key = k /\ (file.form = "keychain" => entry = file.with)

(* Whatever was interrupted, refused or reset, the key of every object is  *)
(* openable by a secret that still exists, unless the user gave the key up *)
(* or it was taken away from outside.                                      *)
NeverByNeither == ~strayed => \A k \in objects \ (given \cup lost) : Openable(k)

(* A session that has opened can read every object the user has not given  *)
(* up: no fresh key quietly takes the place of one that is in use, also    *)
(* when its file is missing.                                               *)
SessionReadsAll == ~strayed /\ pc = "open" => objects \ given \subseteq {root}

(* In a session at rest the setting, the property and the key file agree   *)
(* on the protection, whatever interrupted the sessions before it and      *)
(* whichever changes failed in this one.                                   *)
ProtectionAgrees == ~strayed /\ pc = "open" => stored = prop /\ prop = file.form

(* A session's root key is a key: a PIN that was not accepted, or not      *)
(* given, opens nothing.                                                   *)
RootIsAKey == root # Container

=============================================================================
