------------------------------ MODULE Profile ------------------------------
(***************************************************************************)
(* The two files a profile is kept in: the identity file (src/crypto.rs)   *)
(* with the key and the name, and the settings file (src/settings.rs) with *)
(* the name again.  The program reads both when it starts (src/main.rs,    *)
(* src/node.rs) and writes them when the user renames the profile or       *)
(* changes a setting (src/app.rs).                                         *)
(*                                                                         *)
(* A file that is there is replaced by copying a temporary file over it,   *)
(* so there is a time when it is cut short; one that is not is put there   *)
(* by a rename.  The program may be killed between any two steps.  What a  *)
(* power loss makes of files not yet flushed is left out.                  *)
(***************************************************************************)
EXTENDS Naturals, FiniteSets

CONSTANTS
    Key,        \* signing keys, each generated once
    Name,       \* display names
    OsName,     \* the name of the user's account
    NewPeer,    \* the name of a profile nobody named
    NoName,     \* no name, in the settings, on the command line or of the account
    Absent,     \* no such file
    Torn        \* a file that does not decode

ASSUME ProfileAssumption ==
    /\ Key # {}
    /\ {OsName, NewPeer} \subseteq Name
    /\ NoName \notin Name
    /\ {Absent, Torn} \cap (Name \cup {NoName} \cup [key: Key, name: Name]) = {}
    /\ Absent # Torn

VARIABLES
    identityFile,   \* Absent, Torn, or the key and the name
    settingsFile,   \* Absent, Torn, or the name
    identity,       \* the key and the name in memory
    settingsName,   \* settings.profile_name in memory
    running,        \* what the program is at
    copying,        \* whether a file is being copied over
    generated,      \* keys generated so far
    used,           \* keys the program has run with
    given,          \* the --name the program runs under, NoName if it does not
    chosen          \* the name the user was last told is saved; NoName if in doubt, or
                    \* since the settings were cut short or could not be read

files == <<identityFile, settingsFile>>
memory == <<identity, settingsName>>
profileVars == <<files, memory, running, copying, generated, used, given, chosen>>

Identity == [key: Key, name: Name]

ProfileTypeOK ==
    /\ identityFile \in Identity \cup {Absent, Torn}
    /\ settingsFile \in Name \cup {NoName, Absent, Torn}
    /\ identity \in Identity
    /\ settingsName \in Name \cup {NoName}
    /\ running \in {"down", "creating", "starting", "up", "renaming", "saving"}
    /\ copying \in BOOLEAN
    /\ generated \in SUBSET Key
    /\ used \in SUBSET Key
    /\ given \in Name \cup {NoName}
    /\ chosen \in Name \cup {NoName}

(* Nothing has run yet.  What is in memory is of no account. *)
ProfileInit ==
    /\ identityFile = Absent
    /\ settingsFile = Absent
    /\ identity \in [key: {CHOOSE k \in Key : TRUE}, name: {OsName}]
    /\ settingsName = NoName
    /\ running = "down"
    /\ copying = FALSE
    /\ generated = {}
    /\ used = {}
    /\ given = NoName
    /\ chosen = NoName

-----------------------------------------------------------------------------
(* Starting. *)

(* The name in the settings.  Those that are not there, do not decode, or cannot
   be read just now, are the default ones. *)
LoadedNames == {NoName} \cup ({settingsFile} \cap Name)

(* Slip: the settings are not asked. *)
AccountName(argument, loaded, account) == IF argument # NoName THEN argument ELSE account

(* The name main asks for: the one on the command line, or the one in the
   settings, or the account's. *)
RequestedName(argument, loaded, account) ==
    IF argument # NoName THEN argument ELSE IF loaded # NoName THEN loaded ELSE account

Generate(requested) ==
    \E k \in Key \ generated :
        /\ generated' = generated \cup {k}
        /\ identity' = [key |-> k, name |-> IF requested = NoName THEN NewPeer ELSE requested]
        /\ running' = "creating"
        /\ UNCHANGED used

(* A name that is asked for takes the place of the one in the file. *)
Load(requested) ==
    /\ identity' = [identityFile EXCEPT !.name = IF requested = NoName THEN @ ELSE requested]
    /\ used' = used \cup {identityFile.key}
    /\ running' = "starting"
    /\ UNCHANGED generated

(* Slip: an identity that does not decode is replaced. *)
ReplaceTorn(requested) ==
    IF identityFile \in {Absent, Torn} THEN Generate(requested) ELSE Load(requested)

(* load_or_create: a key is generated only when there is no file; a file that
   cannot be read or does not decode is an error, and the program does not start. *)
LoadOrCreate(requested) ==
    \/ identityFile = Absent /\ Generate(requested)
    \/ identityFile \notin {Absent, Torn} /\ Load(requested)

Start ==
    /\ running = "down"
    /\ \E argument \in Name \cup {NoName}, loaded \in LoadedNames, account \in {OsName, NoName} :
        /\ LoadOrCreate(RequestedName(argument, loaded, account))
        /\ settingsName' = loaded
        /\ given' = argument
        /\ chosen' = IF loaded = NoName THEN NoName ELSE chosen
    /\ UNCHANGED <<files, copying>>

(* The window opens: settings without a name get the identity's. *)
Open ==
    /\ running = "starting"
    /\ running' = IF settingsName = NoName THEN "saving" ELSE "up"
    /\ settingsName' = IF settingsName = NoName THEN identity.name ELSE settingsName
    /\ UNCHANGED <<files, identity, copying, generated, used, given, chosen>>

-----------------------------------------------------------------------------
(* Saving. *)

(* What a save does to a file: it is put there, or cut short and then filled. *)
Filled(file, content) ==
    \/ file = Absent /\ copying' = FALSE /\ content
    \/ copying /\ copying' = FALSE /\ content

CutShort(file) == file # Absent /\ ~copying /\ copying' = TRUE

SaveIdentity ==
    /\ running \in {"creating", "renaming"}
    /\ \/ /\ CutShort(identityFile)
          /\ identityFile' = Torn
          /\ UNCHANGED <<running, settingsName, used>>
       \/ /\ Filled(identityFile, identityFile' = identity)
          /\ settingsName' = IF running = "renaming" THEN identity.name ELSE settingsName
          /\ used' = used \cup {identity.key}
          /\ running' = IF running = "renaming" THEN "saving" ELSE "starting"
    /\ UNCHANGED <<settingsFile, identity, generated, given, chosen>>

SaveSettings ==
    /\ running = "saving"
    /\ \/ /\ CutShort(settingsFile)
          /\ settingsFile' = Torn
          /\ chosen' = NoName
          /\ UNCHANGED running
       \/ /\ Filled(settingsFile, settingsFile' = settingsName)
          /\ chosen' = IF settingsName = identity.name \/ given # NoName
                       THEN settingsName ELSE NoName
          /\ running' = "up"
    /\ UNCHANGED <<identityFile, memory, generated, used, given>>

(* A save that fails, before the copy, in it, or after it because the temporary
   file cannot be removed.  A new identity that cannot be saved ends the
   program; a rename ends there, with the new name in memory. *)
SaveFails ==
    /\ running \in {"creating", "renaming", "saving"}
    /\ copying' = FALSE
    /\ running' = IF running = "creating" THEN "down" ELSE "up"
    /\ \/ UNCHANGED files
       \/ /\ copying
          /\ identityFile' = IF running = "renaming" THEN identity ELSE identityFile
          /\ settingsFile' = IF running = "saving" THEN settingsName ELSE settingsFile
    /\ UNCHANGED <<memory, generated, used, given, chosen>>

-----------------------------------------------------------------------------
(* The user and the system. *)

(* The name in doubt is the old one until the new one is saved. *)
Rename(n) ==
    /\ running = "up"
    /\ identity' = [identity EXCEPT !.name = n]
    /\ given' = NoName
    /\ chosen' = NoName
    /\ running' = "renaming"
    /\ UNCHANGED <<files, settingsName, copying, generated, used>>

(* Any other setting. *)
ChangeSetting ==
    /\ running = "up"
    /\ running' = "saving"
    /\ UNCHANGED <<files, memory, copying, generated, used, given, chosen>>

(* The program is closed or killed. *)
Stop ==
    /\ running # "down"
    /\ running' = "down"
    /\ copying' = FALSE
    /\ UNCHANGED <<files, memory, generated, used, given, chosen>>

ProfileNext ==
    \/ Start \/ Open \/ SaveIdentity \/ SaveSettings \/ SaveFails
    \/ \E n \in Name : Rename(n)
    \/ ChangeSetting \/ Stop

ProfileSpec == ProfileInit /\ [][ProfileNext]_profileVars

-----------------------------------------------------------------------------
(* A profile has one identity for ever: whatever is interrupted, no later run
   signs with another key; at worst it refuses to start (load_or_create). *)
OneIdentity == Cardinality(used) <= 1

(* A name the user was told is saved is the one in the settings and the one the
   profile runs under after every restart, until the next rename: a kill or a
   failed save elsewhere does not bring an older name back.  A run with --name has
   that name in memory and leaves the saved one alone.  The promise ends when the
   settings are cut short or cannot be read, and begins again with the next save
   (main, rename_profile, persist_settings). *)
NameKept ==
    chosen # NoName =>
        /\ settingsFile = chosen
        /\ running \in {"starting", "up"} =>
            identity.name = IF given = NoName THEN chosen ELSE given
=============================================================================
