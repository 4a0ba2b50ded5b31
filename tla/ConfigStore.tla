----------------------------- MODULE ConfigStore -----------------------------
(***************************************************************************)
(* The configuration file of one directory and those who use it: instances *)
(* of the TUI, which hold config.lock for their life, keep the whole       *)
(* configuration in memory and rewrite the file on every change            *)
(* (src/config.rs; the passphrase, profile and deletion screens of         *)
(* src/app.rs), and the headless `env` and `profiles` commands, which read *)
(* without the lock (src/automation.rs).                                   *)
(*                                                                         *)
(* A profile stands for one of its secret fields, empty when unset; what   *)
(* is not secret is copied.  Scrypt and AES-GCM are ideal: a key opens what*)
(* was encrypted under it and nothing else.  One keychain entry.           *)
(***************************************************************************)
EXTENDS Naturals, FiniteSets

CONSTANTS
  Instance,   \* processes that run the TUI on the directory
  NoOne,      \* no instance
  Names,      \* profile names are 1..Names, in their order
  Pass,       \* passphrases somebody may type
  Text,       \* plaintexts of secrets
  Typed,      \* values the user may type into a secret field
  MaxSetups   \* bound: set-ups, each of which draws a salt

NoKey == [pass |-> "none", salt |-> 0]
Key == [pass : Pass, salt : 1..MaxSetups]

\* A text, or what encrypting it under a key gave.
Plain(t) == [under |-> NoKey, text |-> t]
Empty == Plain("")
Absent == Plain("absent")

ASSUME ConfigConstants ==
  /\ NoOne \notin Instance
  /\ Names \in Nat /\ MaxSetups \in Nat
  /\ Pass \cap {"none", "unset", "unreadable"} = {}
  /\ "" \notin Text /\ "absent" \notin Text
  /\ \A v \in Typed : /\ DOMAIN v = {"under", "text"}
                      /\ v = Empty \/ v.text \in Text

VARIABLES
  file,      \* config.toml
  tmp,       \* config.toml.tmp
  holder,    \* the instance whose process has config.lock
  keychain,  \* the passphrase in the keychain, or "none"
  setups,    \* salts drawn so far
  app,       \* app[i]: the App of instance i, and where its main thread is
  reader     \* the headless command

vars == <<file, tmp, holder, keychain, setups, app, reader>>

Name == 1..Names
NoProfiles == [n \in Name |-> Absent]
NoFile == [is |-> "none", meta |-> NoKey, profiles |-> NoProfiles]
Partial == [NoFile EXCEPT !.is = "partial"]

Fresh == [at |-> "Off", phase |-> "None", input |-> "none", env |-> FALSE,
          save |-> TRUE, keychain_enabled |-> FALSE, cipher |-> NoKey,
          meta |-> NoKey, profiles |-> NoProfiles, fatal |-> FALSE,
          name |-> 0, secret |-> Empty, editing |-> FALSE, pending |-> 0,
          asked |-> 0, then |-> "None", changed |-> 0, old |-> Absent]

Idle == [at |-> "Idle", meta |-> NoKey, tries |-> 0]

----------------------------------------------------------------------------
(* Encryption of the fields. *)

\* encrypt_field: what is empty or looks encrypted is left as it is.
Encrypt(v, k) == IF v \in {Empty, Absent} \/ v.under # NoKey
                 THEN v ELSE [under |-> k, text |-> v.text]

\* Cipher::decrypt fails on everything else than what its key encrypted.
Decrypts(v, k) == v \in {Empty, Absent} \/ v.under = k
Decrypt(v, k) == IF v \in {Empty, Absent} THEN v ELSE Plain(v.text)

\* What save writes of the configuration in memory.
Image(a) == [is |-> "whole", meta |-> a.meta,
             profiles |-> [n \in Name |-> Encrypt(a.profiles[n], a.cipher)]]

\* The file parses and every secret in it decrypts.
Opens(f, k) == f.is = "whole" /\ \A n \in Name : Decrypts(f.profiles[n], k)
Opened(f, k) == [n \in Name |-> Decrypt(f.profiles[n], k)]

----------------------------------------------------------------------------
(* Screens. *)
Becomes(i, a) == app' = [app EXCEPT ![i] = a]
At(i, s) == app[i].at = s

EnterHome(a) == [a EXCEPT !.at = "Home", !.name = 0, !.secret = Empty,
                          !.editing = FALSE, !.asked = 0]
Fail(a) == [a EXCEPT !.at = "Error"]
Fatal(a) == [a EXCEPT !.at = "Error", !.fatal = TRUE]

\* enter_manual_passphrase
Manual(a, save) ==
  [a EXCEPT !.at = IF a.phase = "Setup" THEN "Setup" ELSE "Unlock",
            !.input = "none", !.env = FALSE, !.save = save]

\* start_passphrase_flow, with unlock_from_env
Start(a, env) ==
  LET u == [a EXCEPT !.meta = file.meta, !.phase = "Unlock"] IN
  CASE file.is = "none" -> [a EXCEPT !.at = "InstancePrompt"]
    [] file.is = "partial" \/ (file.is = "whole" /\ file.meta = NoKey) -> Fatal(a)
    [] OTHER ->
         IF env \in Pass
         THEN [u EXCEPT !.at = "Deriving", !.input = env, !.env = TRUE, !.save = FALSE]
         ELSE IF env = "unset" /\ a.keychain_enabled
         THEN [u EXCEPT !.at = "AuthMethod"]
         ELSE Manual(u, FALSE)

Env == Pass \cup {"unset", "unreadable"}

\* Mutant of Launch: no lock is asked for.
LaunchUnlocked(i) ==
  /\ At(i, "Off")
  /\ holder' = i
  /\ \E k \in BOOLEAN, env \in Env :
       Becomes(i, Start([Fresh EXCEPT !.keychain_enabled = k], env))
  /\ UNCHANGED <<file, tmp, keychain, setups, reader>>

\* A second instance exits here, refused.
Launch(i) ==
  /\ At(i, "Off") /\ holder = NoOne
  /\ holder' = i
  /\ \E k \in BOOLEAN, env \in Env :
       Becomes(i, Start([Fresh EXCEPT !.keychain_enabled = k], env))
  /\ UNCHANGED <<file, tmp, keychain, setups, reader>>

\* The process ends: quit at a screen, or killed anywhere.
Exit(i) ==
  /\ ~At(i, "Off")
  /\ Becomes(i, Fresh)
  /\ holder' = IF holder = i THEN NoOne ELSE holder
  /\ UNCHANGED <<file, tmp, keychain, setups, reader>>

----------------------------------------------------------------------------
(* The passphrase. *)
Screens == <<file, tmp, holder, keychain, setups, reader>>

SubmitInstance(i) ==
  /\ At(i, "InstancePrompt")
  /\ Becomes(i, Manual([app[i] EXCEPT !.phase = "Setup"], TRUE))
  /\ UNCHANGED Screens

\* The box "save to keychain" can be toggled before Enter.
SubmitPassphrase(i) ==
  /\ app[i].at \in {"Setup", "Unlock"}
  /\ \E p \in Pass, s \in BOOLEAN :
       /\ app[i].keychain_enabled \/ s = app[i].save
       /\ Becomes(i, [app[i] EXCEPT !.at = "Deriving", !.input = p, !.save = s])
  /\ UNCHANGED Screens

\* activate_auth_method; reading the keychain may fail.
ActivateAuthMethod(i) ==
  /\ At(i, "AuthMethod")
  /\ \/ Becomes(i, Manual(app[i], FALSE))
     \/ Becomes(i, Manual(app[i], TRUE))
     \/ /\ keychain # "none"
        /\ Becomes(i, [app[i] EXCEPT !.at = "Deriving", !.input = keychain])
  /\ UNCHANGED Screens

\* load_config_or_set_fatal
Load(a) ==
  IF file.is = "none"
  THEN EnterHome([a EXCEPT !.meta = NoKey, !.profiles = NoProfiles])
  ELSE IF Opens(file, a.cipher)
  THEN EnterHome([a EXCEPT !.meta = file.meta, !.profiles = Opened(file, a.cipher)])
  ELSE Fatal(a)

ClearScratch(a) == [a EXCEPT !.input = "none", !.env = FALSE, !.phase = "None",
                             !.save = TRUE]

\* The end of derive_passphrase_key.
SaveToKeychain(i, a) ==
  \/ /\ a.keychain_enabled /\ a.save
     /\ \/ keychain' = a.input /\ Becomes(i, ClearScratch(a))
        \/ UNCHANGED keychain /\ Becomes(i, ClearScratch(Fail(a)))
  \/ /\ ~(a.keychain_enabled /\ a.save)
     /\ UNCHANGED keychain
     /\ Becomes(i, ClearScratch(a))

\* derive_passphrase_key on Unlock.  The signature tells a wrong key.
Unlock(i) ==
  LET a == app[i] IN
  /\ At(i, "Deriving") /\ a.phase = "Unlock"
  /\ IF [pass |-> a.input, salt |-> a.meta.salt] # a.meta
     THEN Becomes(i, Manual(a, a.save)) /\ UNCHANGED keychain
     ELSE SaveToKeychain(i, Load([a EXCEPT !.cipher = a.meta]))
  /\ UNCHANGED <<file, tmp, holder, setups, reader>>

----------------------------------------------------------------------------
(* save: it encrypts, writes the temporary file and renames it. *)
StartSave(i, a, then) == Becomes(i, [a EXCEPT !.at = "SaveOpen", !.then = then])

\* derive_passphrase_key on Setup, as far as its save.
SetUp(i) ==
  LET key == [pass |-> app[i].input, salt |-> setups + 1] IN
  /\ At(i, "Deriving") /\ app[i].phase = "Setup"
  /\ setups < MaxSetups
  /\ setups' = setups + 1
  /\ StartSave(i, [Load([app[i] EXCEPT !.cipher = key]) EXCEPT !.meta = key], "setup")
  /\ UNCHANGED <<file, tmp, holder, keychain, reader>>

\* Mutant of SaveOpen: the file is rewritten in place.
SaveOpenInPlace(i) ==
  /\ At(i, "SaveOpen")
  /\ tmp' = Partial /\ file' = Partial
  /\ Becomes(i, [app[i] EXCEPT !.at = "SaveWrite"])
  /\ UNCHANGED <<holder, keychain, setups, reader>>

SaveOpen(i) ==
  /\ At(i, "SaveOpen")
  /\ tmp' = Partial
  /\ Becomes(i, [app[i] EXCEPT !.at = "SaveWrite"])
  /\ UNCHANGED <<file, holder, keychain, setups, reader>>

SaveWrite(i) ==
  /\ At(i, "SaveWrite")
  /\ tmp' = Image(app[i])
  /\ Becomes(i, [app[i] EXCEPT !.at = "SaveRename"])
  /\ UNCHANGED <<file, holder, keychain, setups, reader>>

\* The save is over: of the set-up, or of a profile.
Over(a) == [a EXCEPT !.then = "None", !.changed = 0, !.old = Absent]
Saved(a) == IF a.then = "setup" THEN [Over(a) EXCEPT !.at = "Keychain"]
            ELSE EnterHome(Over(a))

SaveRename(i) ==
  /\ At(i, "SaveRename")
  /\ file' = tmp
  /\ tmp' = NoFile
  /\ Becomes(i, Saved(app[i]))
  /\ UNCHANGED <<holder, keychain, setups, reader>>

\* Mutant of Restore: the change stays in memory.
RestoreNothing(a) == Over(a)

\* A save that failed: ProfileRollback, or the profile not removed after all.
Restore(a) == Over([a EXCEPT !.profiles[a.changed] = a.old])

SaveFails(i) ==
  /\ app[i].at \in {"SaveOpen", "SaveWrite", "SaveRename"}
  /\ Becomes(i, IF app[i].then = "setup"
                THEN [Over(app[i]) EXCEPT !.at = "Keychain", !.fatal = TRUE]
                ELSE Fail(Restore(app[i])))
  /\ UNCHANGED Screens

\* The rest of derive_passphrase_key on Setup.
SetUpKeychain(i) ==
  /\ At(i, "Keychain")
  /\ SaveToKeychain(i, [app[i] EXCEPT !.at = IF app[i].fatal THEN "Error" ELSE "Home"])
  /\ UNCHANGED <<file, tmp, holder, setups, reader>>

----------------------------------------------------------------------------
(* Profiles: create, edit, delete. *)
Has(a, n) == a.profiles[n] # Absent
Listed(a) == {n \in Name : Has(a, n)}
IndexOf(a, n) == Cardinality({m \in Listed(a) : m < n})
NameAt(a, idx) == CHOOSE n \in Listed(a) : IndexOf(a, n) = idx

NewProfile(i) ==
  /\ At(i, "Home")
  /\ Becomes(i, [EnterHome(app[i]) EXCEPT !.at = "Name"])
  /\ UNCHANGED Screens

EnterName(i) ==
  /\ At(i, "Name")
  /\ \E n \in Name :
       Becomes(i, IF Has(app[i], n) THEN Fail(app[i])
                  ELSE [app[i] EXCEPT !.at = "Backend", !.name = n, !.asked = n])
  /\ UNCHANGED Screens

\* `e` on a row: the form is filled from the profile.
EditProfile(i) ==
  /\ At(i, "Home")
  /\ \E n \in Listed(app[i]) :
       Becomes(i, [app[i] EXCEPT !.at = "Location", !.name = n, !.editing = TRUE,
                                 !.secret = app[i].profiles[n], !.asked = n])
  /\ UNCHANGED Screens

\* Enter on the forms in between: BackendChoice, then the backend's own.
NextForm(i) ==
  /\ \/ At(i, "Backend") /\ Becomes(i, [app[i] EXCEPT !.at = "Location"])
     \/ At(i, "Location") /\ Becomes(i, [app[i] EXCEPT !.at = "Password"])
  /\ UNCHANGED Screens

EnterSecret(i) ==
  /\ At(i, "Password")
  /\ \E v \in Typed : Becomes(i, [app[i] EXCEPT !.at = "Verifying", !.secret = v])
  /\ UNCHANGED Screens

\* commit_profile, up to its save.
CommitProfile(i) ==
  LET a == app[i] IN
  IF ~a.editing /\ Has(a, a.name)
  THEN Becomes(i, Fail(a))
  ELSE StartSave(i, [a EXCEPT !.changed = a.name, !.old = a.profiles[a.name],
                              !.profiles[a.name] = a.secret], "commit")

Verify(i) ==
  /\ At(i, "Verifying")
  /\ \/ CommitProfile(i)
     \/ Becomes(i, [app[i] EXCEPT !.at = "VerifyFailed"])
  /\ UNCHANGED Screens

\* `r` goes back to the form, `s` saves all the same.
VerifyFailedKey(i) ==
  /\ At(i, "VerifyFailed")
  /\ \/ CommitProfile(i)
     \/ Becomes(i, [app[i] EXCEPT !.at = "Location"])
  /\ UNCHANGED Screens

\* `d` on a row asks; the question names the profile at the index.
AskDelete(i) ==
  /\ At(i, "Home")
  /\ \E n \in Listed(app[i]) :
       Becomes(i, [app[i] EXCEPT !.at = "ConfirmDelete", !.asked = n,
                                 !.pending = IndexOf(app[i], n)])
  /\ UNCHANGED Screens

\* `y`, up to the save.
ConfirmDelete(i) ==
  LET n == NameAt(app[i], app[i].pending) IN
  /\ At(i, "ConfirmDelete")
  /\ StartSave(i, [app[i] EXCEPT !.changed = n, !.old = app[i].profiles[n], !.pending = 0,
                                 !.profiles[n] = Absent], "delete")
  /\ UNCHANGED Screens

\* Esc where it does not quit, and any key on an error that is not fatal.
Escape(i) ==
  LET a == app[i] IN
  /\ \/ /\ a.at \in {"Name", "VerifyFailed"} \/ (a.at = "Location" /\ a.editing)
                     \/ (a.at = "Error" /\ ~a.fatal)
        /\ Becomes(i, EnterHome(a))
     \/ a.at = "ConfirmDelete" /\ Becomes(i, [a EXCEPT !.at = "Home", !.pending = 0, !.asked = 0])
     \/ a.at = "Backend" /\ Becomes(i, [a EXCEPT !.at = "Name"])
     \/ a.at = "Location" /\ ~a.editing /\ Becomes(i, [a EXCEPT !.at = "Backend"])
     \/ a.at = "Password" /\ Becomes(i, [a EXCEPT !.at = "Location", !.secret = Empty])
     \/ a.at = "Setup" /\ Becomes(i, [a EXCEPT !.at = "InstancePrompt", !.input = "none"])
  /\ UNCHANGED Screens

----------------------------------------------------------------------------
(* The headless commands. *)
Read(r) == reader' = r /\ UNCHANGED <<file, tmp, holder, keychain, setups, app>>

\* peek; `profiles` ends with it.
ReaderPeek ==
  /\ reader.at = "Idle"
  /\ CASE file.is = "none" -> Read([reader EXCEPT !.at = "Refused"])
       [] file.is = "partial" -> Read([reader EXCEPT !.at = "Broken"])
       [] OTHER -> Read([reader EXCEPT !.at = "Peeked", !.meta = file.meta])

\* cipher_from_passphrase
TryPassphrase(p, otherwise) ==
  IF [pass |-> p, salt |-> reader.meta.salt] = reader.meta
  THEN Read([reader EXCEPT !.at = "Load"])
  ELSE Read(otherwise)

\* unlock_cipher with a stored passphrase: the environment, then the keychain;
\* without one it prompts, when there is a terminal.
ReaderUnlock ==
  LET refused == [reader EXCEPT !.at = "Refused"] IN
  /\ reader.at = "Peeked"
  /\ \E env \in Env, no_keychain, terminal \in BOOLEAN :
       IF reader.meta = NoKey \/ env = "unreadable" THEN Read(refused)
       ELSE IF env \in Pass THEN TryPassphrase(env, refused)
       ELSE IF ~no_keychain /\ keychain # "none" THEN TryPassphrase(keychain, refused)
       ELSE Read([reader EXCEPT !.at = IF terminal THEN "Prompt" ELSE "Refused"])

\* Mutant of ReaderPrompt: the count is checked a prompt too late.
ReaderPromptLate ==
  /\ reader.at = "Prompt"
  /\ \E p \in Pass :
       TryPassphrase(p, [reader EXCEPT !.tries = @ + 1,
                                       !.at = IF reader.tries = 3 THEN "Refused" ELSE @])

\* unlock_via_prompts
ReaderPrompt ==
  /\ reader.at = "Prompt"
  /\ \E p \in Pass :
       TryPassphrase(p, [reader EXCEPT !.tries = @ + 1,
                                       !.at = IF reader.tries = 2 THEN "Refused" ELSE @])

\* load reads the file a second time.
ReaderLoad ==
  /\ reader.at = "Load"
  /\ Read([reader EXCEPT !.at = IF file.is = "none" \/ Opens(file, reader.meta)
                                THEN "Done" ELSE "Broken"])

ReaderAgain == reader.at \in {"Done", "Refused"} /\ Read(Idle)

----------------------------------------------------------------------------
Init ==
  /\ file = NoFile /\ tmp = NoFile
  /\ holder = NoOne
  /\ keychain = "none"
  /\ setups = 0
  /\ app = [i \in Instance |-> Fresh]
  /\ reader = Idle

Step(i) ==
  \/ Launch(i) \/ Exit(i)
  \/ SubmitInstance(i) \/ SubmitPassphrase(i) \/ ActivateAuthMethod(i) \/ Unlock(i)
  \/ SetUp(i) \/ SetUpKeychain(i)
  \/ SaveOpen(i) \/ SaveWrite(i) \/ SaveRename(i) \/ SaveFails(i)
  \/ NewProfile(i) \/ EnterName(i) \/ EditProfile(i) \/ NextForm(i) \/ EnterSecret(i)
  \/ Verify(i) \/ VerifyFailedKey(i) \/ AskDelete(i) \/ ConfirmDelete(i) \/ Escape(i)

Next == \/ \E i \in Instance : Step(i)
        \/ ReaderPeek \/ ReaderUnlock \/ ReaderPrompt \/ ReaderLoad \/ ReaderAgain

Spec == Init /\ [][Next]_vars

----------------------------------------------------------------------------
(* Properties. *)
Saving == {"SaveOpen", "SaveWrite", "SaveRename"}
Screen == {"Off", "InstancePrompt", "Setup", "AuthMethod", "Unlock", "Deriving",
           "Keychain", "Home", "Name", "Backend", "Location", "Password",
           "Verifying", "VerifyFailed", "ConfirmDelete", "Error"} \cup Saving

AKey == Key \cup {NoKey}
Value == Typed \cup [under : AKey, text : Text] \cup {Empty, Absent}
Profiles == [Name -> Value]
File == [is : {"none", "partial", "whole"}, meta : AKey, profiles : Profiles]
App == [at : Screen, phase : {"None", "Setup", "Unlock"}, input : Pass \cup {"none"},
        env : BOOLEAN, save : BOOLEAN, keychain_enabled : BOOLEAN, cipher : AKey,
        meta : AKey, profiles : Profiles, fatal : BOOLEAN, name : Name \cup {0},
        secret : Value, editing : BOOLEAN, pending : Nat, asked : Name \cup {0},
        then : {"None", "setup", "commit", "delete"}, changed : Name \cup {0}, old : Value]

\* Types; and config.lock is held by whoever runs.
TypeOK ==
  /\ file \in File /\ tmp \in File
  /\ holder \in Instance \cup {NoOne}
  /\ keychain \in Pass \cup {"none"}
  /\ setups \in 0..MaxSetups
  /\ app \in [Instance -> App]
  /\ reader \in [at : {"Idle", "Peeked", "Prompt", "Load", "Done", "Refused", "Broken"},
                 meta : AKey, tries : 0..3]

\* However a save ends or is cut short, config.toml is absent, or whole and
\* opened by the passphrase its own [passphrase] block verifies.
FileOpens == file.is = "none" \/ (file.meta # NoKey /\ Opens(file, file.meta))

\* While an instance waits at a screen behind the unlock, its memory is what is
\* on disk: a save that failed leaves nothing behind, an instance that was
\* refused changes nothing.
Unlocked(a) == a.at \in {"Home", "Name", "Backend", "Location", "Password", "Verifying",
                         "VerifyFailed", "ConfirmDelete"} \/ (a.at = "Error" /\ ~a.fatal)
MemoryIsDisk ==
  \A i \in Instance : Unlocked(app[i]) =>
    /\ file.is = "whole" /\ file.meta = app[i].meta
    /\ Opened(file, app[i].cipher) = app[i].profiles

\* A step that changes config.toml changes the profile its user named, and no
\* other: no update of another instance is undone.  A set-up finds no profiles.
OnlyAsked ==
  [][file' # file =>
       /\ holder # NoOne
       /\ \A n \in Name \ {app[holder].asked} :
            Opened(file', file'.meta)[n] = Opened(file, file.meta)[n]]_vars

\* A headless command that has a configuration to read never finds half of one
\* or one it cannot decrypt, whatever an instance does meanwhile.
ReadsWhole == reader.at # "Broken"

\* So the configuration can always be opened by who knows its passphrase.
ConfigOpens == FileOpens /\ ReadsWhole

\* The set-up has a key, but its configuration could not be saved.
SetUpUnsaved(i) == At(i, "Keychain") /\ app[i].fatal /\ file.is = "none"

\* The keychain is given only a passphrase that was submitted, with the save box
\* set and not from the environment, and that opens config.toml - or that opens
\* nothing, since a set-up stores it even when its own save has just failed.
KeychainChosen ==
  [][keychain' # keychain =>
       \E i \in Instance :
         /\ app[i].at \in {"Deriving", "Keychain"} /\ ~app[i].env
         /\ app[i].save /\ app[i].input = keychain'
         /\ \/ file.meta.pass = keychain' /\ Opens(file, file.meta)
            \/ SetUpUnsaved(i)]_vars

\* So the file and the keychain change only as their user asked.
ChangesAsked == OnlyAsked /\ KeychainChosen
=============================================================================
