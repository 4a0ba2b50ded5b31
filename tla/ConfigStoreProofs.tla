-------------------------- MODULE ConfigStoreProofs --------------------------
(* Proofs about ConfigStore. *)
EXTENDS ConfigStore, FiniteSetTheorems, TLAPS

----------------------------------------------------------------------------
(* Types. *)

LEMMA Bounds == Names \in Nat /\ MaxSetups \in Nat
BY Zenon, ConfigConstants DEF ConfigConstants

LEMMA Keys == NoKey \notin Key /\ NoKey \in AKey /\ Empty # Absent
BY ConfigConstants DEF NoKey, Key, AKey, Empty, Absent, Plain

LEMMA CipherTypes ==
  ASSUME NEW v \in Value, NEW k \in AKey
  PROVE  Encrypt(v, k) \in Value /\ Decrypt(v, k) \in Value
<1>1. CASE v \in {Empty, Absent}
  BY <1>1 DEF Encrypt, Decrypt
<1>2. CASE v \notin {Empty, Absent}
  <2>1. v.text \in Text
    BY <1>2, ConfigConstants DEF Value
  <2> QED
    BY <1>2, <2>1, Keys DEF Encrypt, Decrypt, Value, Plain
<1> QED
  BY <1>1, <1>2

LEMMA FileTypes ==
  ASSUME NEW f \in File, NEW a \in App, NEW k \in AKey
  PROVE  /\ NoFile \in File /\ Partial \in File /\ NoProfiles \in Profiles
         /\ Opened(f, k) \in Profiles
         /\ Image(a) \in File
<1>1. NoProfiles \in Profiles
  BY DEF NoProfiles, Profiles, Value
<1>2. Opened(f, k) \in Profiles
  BY CipherTypes DEF Opened, File, Profiles
<1>3. [n \in Name |-> Encrypt(a.profiles[n], a.cipher)] \in Profiles
  BY CipherTypes DEF App, Profiles
<1> QED
  BY <1>1, <1>2, <1>3, Keys DEF Image, NoFile, Partial, File, App

LEMMA ScreenNames ==
  /\ {"Off", "InstancePrompt", "Setup", "AuthMethod", "Unlock", "Deriving",
      "Keychain", "Home", "Name", "Backend", "Location", "Password", "Verifying",
      "VerifyFailed", "ConfirmDelete", "Error", "SaveOpen", "SaveWrite", "SaveRename"}
       \subseteq Screen
BY DEF Screen, Saving

\* What the screens go with: a passphrase to derive a key from, the name of the
\* profile in the forms, a row that a deletion is asked about.
Forms == {"Backend", "Location", "Password", "Verifying", "VerifyFailed"}
Goes(a) ==
  /\ a.at = "Deriving" => a.input \in Pass
  /\ a.at \in Forms => a.name \in Name
  /\ a.at = "ConfirmDelete" => \E n \in Listed(a) : IndexOf(a, n) = a.pending

ReaderGoes ==
  /\ reader.at \in {"Idle", "Peeked"} => reader.tries = 0
  /\ reader.at = "Prompt" => reader.tries < 3

Types == TypeOK /\ ReaderGoes /\ \A i \in Instance : Goes(app[i])

LEMMA FreshTypes == Fresh \in App /\ Goes(Fresh)
<1>1. NoProfiles \in Profiles /\ Empty \in Value /\ Absent \in Value
  BY DEF NoProfiles, Profiles, Value
<1> QED
  BY <1>1, Keys, ScreenNames DEF Fresh, App, Goes, Forms

LEMMA InitTypes == Init => Types
<1> SUFFICES ASSUME Init PROVE Types
  OBVIOUS
<1>1. file \in File /\ tmp \in File
  BY Keys DEF Init, NoFile, File, NoProfiles, Profiles, Value
<1>2. app \in [Instance -> App] /\ \A i \in Instance : Goes(app[i])
  BY FreshTypes DEF Init
<1>3. reader.at = "Idle" /\ reader.meta \in AKey /\ reader.tries = 0
      /\ reader = [at |-> reader.at, meta |-> reader.meta, tries |-> reader.tries]
  BY Keys DEF Init, Idle
<1>4. /\ holder \in Instance \cup {NoOne} /\ keychain \in Pass \cup {"none"}
      /\ setups \in 0..MaxSetups
  BY Bounds DEF Init
<1>5. reader \in [at : {"Idle", "Peeked", "Prompt", "Load", "Done", "Refused", "Broken"},
                  meta : AKey, tries : 0..3]
  BY <1>3
<1> QED
  BY <1>1, <1>2, <1>3, <1>4, <1>5 DEF Types, TypeOK, ReaderGoes

\* Who moves becomes a sound App, the others stay.
LEMMA Moves ==
  ASSUME Types, NEW i \in Instance, NEW a \in App, Goes(a), Becomes(i, a)
  PROVE  app' \in [Instance -> App] /\ \A j \in Instance : Goes(app'[j])
BY DEF Types, TypeOK, Becomes

LEMMA HomeTypes ==
  ASSUME NEW a \in App
  PROVE  EnterHome(a) \in App /\ Goes(EnterHome(a)) /\ EnterHome(a).at = "Home"
<1>1. Empty \in Value
  BY DEF Value
<1>2. EnterHome(a) \in App
  BY <1>1, ScreenNames DEF EnterHome, App
<1>3. EnterHome(a).at = "Home"
  BY DEF EnterHome, App
<1> QED
  BY <1>2, <1>3 DEF Goes, Forms

LEMMA LoadTypes ==
  ASSUME TypeOK, NEW a \in App
  PROVE  Load(a) \in App /\ Goes(Load(a)) /\ Load(a).at \in {"Home", "Error"}
<1>1. /\ Opened(file, a.cipher) \in Profiles /\ NoProfiles \in Profiles
      /\ file.meta \in AKey /\ Empty \in Value /\ NoKey \in AKey
  BY FileTypes, Keys DEF TypeOK, App, File, Value
<1> DEFINE none == EnterHome([a EXCEPT !.meta = NoKey, !.profiles = NoProfiles])
           some == EnterHome([a EXCEPT !.meta = file.meta, !.profiles = Opened(file, a.cipher)])
<1>2. none \in App /\ Goes(none) /\ none.at = "Home"
  BY <1>1, ScreenNames DEF EnterHome, App, Goes, Forms
<1>3. some \in App /\ Goes(some) /\ some.at = "Home"
  BY <1>1, ScreenNames DEF EnterHome, App, Goes, Forms
<1>4. Fatal(a) \in App /\ Goes(Fatal(a)) /\ Fatal(a).at = "Error"
  BY ScreenNames DEF Fatal, App, Goes, Forms
<1> QED
  BY <1>2, <1>3, <1>4 DEF Load

LEMMA ManualTypes ==
  ASSUME NEW a \in App, NEW s \in BOOLEAN
  PROVE  Manual(a, s) \in App /\ Goes(Manual(a, s))
<1>1. ASSUME NEW x \in {"Setup", "Unlock"}
      PROVE  LET m == [a EXCEPT !.at = x, !.input = "none", !.env = FALSE, !.save = s]
             IN m \in App /\ Goes(m)
  BY ScreenNames DEF App, Goes, Forms
<1> QED
  BY <1>1 DEF Manual

LEMMA KeychainTypes ==
  ASSUME Types, NEW i \in Instance, NEW a \in App,
         a.at \in {"Home", "Error"}, a.keychain_enabled \in BOOLEAN, SaveToKeychain(i, a)
  PROVE  /\ keychain' \in Pass \cup {"none"}
         /\ app' \in [Instance -> App] /\ \A j \in Instance : Goes(app'[j])
<1>1. ClearScratch(a) \in App /\ Goes(ClearScratch(a))
  BY ZenonT(40) DEF ClearScratch, App, Goes, Forms
<1>2. ClearScratch(Fail(a)) \in App /\ Goes(ClearScratch(Fail(a)))
  BY ScreenNames, ZenonT(40) DEF ClearScratch, Fail, App, Goes, Forms
<1>3. keychain' \in Pass \cup {"none"}
  BY DEF SaveToKeychain, Types, TypeOK, App
<1> QED
  BY <1>1, <1>2, <1>3, Moves DEF SaveToKeychain

\* An action that only moves an instance keeps the types when its App does.
LEMMA ScreenTypes ==
  ASSUME Types, NEW i \in Instance, UNCHANGED Screens,
         NEW a \in App, Goes(a), Becomes(i, a)
  PROVE  Types'
<1>1. app' \in [Instance -> App] /\ \A j \in Instance : Goes(app'[j])
  BY Moves
<1> QED
  BY <1>1 DEF Types, TypeOK, Screens, ReaderGoes, Goes, Listed, Has, IndexOf

LEMMA StartTypes ==
  ASSUME Types, NEW a \in App, NEW env \in Env
  PROVE  Start(a, env) \in App /\ Goes(Start(a, env))
<1> DEFINE u == [a EXCEPT !.meta = file.meta, !.phase = "Unlock"]
<1>1. u \in App
  BY DEF Types, TypeOK, File, App
<1> HIDE DEF u
<1>2. LET x == [a EXCEPT !.at = "InstancePrompt"] IN x \in App /\ Goes(x)
  BY ScreenNames DEF App, Goes, Forms
<1>3. Fatal(a) \in App /\ Goes(Fatal(a))
  BY ScreenNames DEF Fatal, App, Goes, Forms
<1>4. LET x == [u EXCEPT !.at = "AuthMethod"] IN x \in App /\ Goes(x)
  BY <1>1, ScreenNames DEF App, Goes, Forms
<1>5. Manual(u, FALSE) \in App /\ Goes(Manual(u, FALSE))
  BY <1>1, ManualTypes
<1>6. ASSUME env \in Pass
      PROVE  LET x == [u EXCEPT !.at = "Deriving", !.input = env, !.env = TRUE, !.save = FALSE]
             IN x \in App /\ Goes(x)
  <2> DEFINE x == [u EXCEPT !.at = "Deriving", !.input = env, !.env = TRUE, !.save = FALSE]
  <2>1. x \in App
    BY <1>1, <1>6, ScreenNames DEF App
  <2>2. x.at = "Deriving" /\ x.input = env
    BY <1>1 DEF App
  <2> QED
    BY <1>6, <2>1, <2>2 DEF Goes, Forms
<1> QED
  BY <1>2, <1>3, <1>4, <1>5, <1>6 DEF Start, u

LEMMA IndexTypes ==
  ASSUME NEW a, NEW n
  PROVE  IndexOf(a, n) \in Nat
<1>1. IsFiniteSet(Name)
  BY FS_Interval, Bounds DEF Name
<1>2. IsFiniteSet({m \in Listed(a) : m < n})
  BY <1>1, FS_Subset DEF Listed
<1> QED
  BY <1>2, FS_CardinalityType DEF IndexOf

\* The question's index is that of a row, which NameAt finds.
LEMMA Asked ==
  ASSUME NEW a \in App, Goes(a), a.at = "ConfirmDelete"
  PROVE  LET n == NameAt(a, a.pending)
         IN n \in Listed(a) /\ n \in Name /\ IndexOf(a, n) = a.pending
BY DEF Goes, NameAt, Listed

LEMMA LaunchTypes ==
  ASSUME Types, NEW i \in Instance, Launch(i)
  PROVE  Types'
<1>1. PICK k \in BOOLEAN, env \in Env :
        Becomes(i, Start([Fresh EXCEPT !.keychain_enabled = k], env))
  BY DEF Launch
<1>2. [Fresh EXCEPT !.keychain_enabled = k] \in App
  BY FreshTypes DEF App
<1>3. app' \in [Instance -> App] /\ \A j \in Instance : Goes(app'[j])
  BY <1>1, <1>2, StartTypes, Moves
<1> QED
  BY <1>3 DEF Launch, Types, TypeOK, ReaderGoes, Goes, Listed, Has, IndexOf

LEMMA ExitTypes ==
  ASSUME Types, NEW i \in Instance, Exit(i)
  PROVE  Types'
<1>1. app' \in [Instance -> App] /\ \A j \in Instance : Goes(app'[j])
  BY FreshTypes, Moves DEF Exit
<1> QED
  BY <1>1 DEF Exit, Types, TypeOK, ReaderGoes, Goes, Listed, Has, IndexOf

LEMMA PassphraseTypes ==
  ASSUME Types, NEW i \in Instance,
         SubmitInstance(i) \/ SubmitPassphrase(i) \/ ActivateAuthMethod(i)
  PROVE  Types'
<1>0. app[i] \in App /\ keychain \in Pass \cup {"none"}
  BY DEF Types, TypeOK
<1>1. CASE SubmitInstance(i)
  <2>1. [app[i] EXCEPT !.phase = "Setup"] \in App
    BY <1>0 DEF App
  <2> QED
    BY <1>1, <2>1, ManualTypes, ScreenTypes DEF SubmitInstance
<1>2. CASE SubmitPassphrase(i)
  <2>1. PICK p \in Pass, s \in BOOLEAN :
          Becomes(i, [app[i] EXCEPT !.at = "Deriving", !.input = p, !.save = s])
    BY <1>2 DEF SubmitPassphrase
  <2>2. LET a == [app[i] EXCEPT !.at = "Deriving", !.input = p, !.save = s]
        IN a \in App /\ Goes(a)
    BY <1>0, ScreenNames DEF App, Goes, Forms
  <2> QED
    BY <1>2, <2>1, <2>2, ScreenTypes DEF SubmitPassphrase
<1>3. CASE ActivateAuthMethod(i)
  <2>1. ASSUME keychain # "none"
        PROVE  LET a == [app[i] EXCEPT !.at = "Deriving", !.input = keychain]
               IN a \in App /\ Goes(a)
    BY <1>0, <2>1, ScreenNames DEF App, Goes, Forms
  <2>2. \A s \in BOOLEAN : Manual(app[i], s) \in App /\ Goes(Manual(app[i], s))
    BY <1>0, ManualTypes
  <2> QED
    BY <1>3, <2>1, <2>2, ScreenTypes DEF ActivateAuthMethod
<1> QED
  BY <1>1, <1>2, <1>3

LEMMA UnlockTypes ==
  ASSUME Types, NEW i \in Instance, Unlock(i)
  PROVE  Types'
<1> DEFINE a == app[i]
           wrong == [pass |-> a.input, salt |-> a.meta.salt] # a.meta
<1>0. a \in App
  BY DEF Types, TypeOK
<1>1. CASE wrong
  <2>1. Manual(a, a.save) \in App /\ Goes(Manual(a, a.save))
    BY <1>0, ManualTypes DEF App
  <2>2. UNCHANGED Screens /\ Becomes(i, Manual(a, a.save))
    BY <1>1 DEF Unlock, Screens
  <2> QED
    BY <2>1, <2>2, ScreenTypes
<1>2. CASE ~wrong
  <2> DEFINE b == [a EXCEPT !.cipher = a.meta]
  <2>1. b \in App
    BY <1>0 DEF App
  <2>2. Load(b) \in App /\ Load(b).at \in {"Home", "Error"} /\ Load(b).keychain_enabled \in BOOLEAN
    <3>1. Load(b) \in App /\ Load(b).at \in {"Home", "Error"}
      BY <2>1, LoadTypes DEF Types
    <3> QED
      BY <3>1 DEF App
  <2>3. SaveToKeychain(i, Load(b))
    BY <1>2 DEF Unlock
  <2>4. /\ keychain' \in Pass \cup {"none"}
        /\ app' \in [Instance -> App] /\ \A j \in Instance : Goes(app'[j])
    BY <2>2, <2>3, KeychainTypes
  <2> QED
    BY <2>4 DEF Unlock, Types, TypeOK, ReaderGoes, Goes, Listed, Has, IndexOf
<1> QED
  BY <1>1, <1>2

LEMMA SetUpTypes ==
  ASSUME Types, NEW i \in Instance, SetUp(i) \/ SetUpKeychain(i)
  PROVE  Types'
<1>0. app[i] \in App /\ Goes(app[i]) /\ setups \in 0..MaxSetups
  BY DEF Types, TypeOK
<1>1. CASE SetUp(i)
  <2> DEFINE key == [pass |-> app[i].input, salt |-> setups + 1]
             b == Load([app[i] EXCEPT !.cipher = key])
             c == [[b EXCEPT !.meta = key] EXCEPT !.at = "SaveOpen", !.then = "setup"]
  <2>1. setups + 1 \in 0..MaxSetups /\ key \in AKey
    BY <1>0, <1>1, Bounds DEF SetUp, At, Goes, AKey, Key
  <2>2. [app[i] EXCEPT !.cipher = key] \in App
    BY <1>0, <2>1 DEF App
  <2>3. b \in App
    BY <2>2, LoadTypes DEF Types
  <2>4. c \in App /\ Goes(c)
    <3> HIDE DEF b, key
    <3> QED
      BY <2>1, <2>3, ScreenNames DEF App, Goes, Forms
  <2>5. Becomes(i, c)
    BY <1>1 DEF SetUp, StartSave
  <2>6. app' \in [Instance -> App] /\ \A j \in Instance : Goes(app'[j])
    BY <2>4, <2>5, Moves
  <2> QED
    BY <1>1, <2>1, <2>6 DEF SetUp, Types, TypeOK, ReaderGoes, Goes, Listed, Has, IndexOf
<1>2. CASE SetUpKeychain(i)
  <2> DEFINE b == [app[i] EXCEPT !.at = IF app[i].fatal THEN "Error" ELSE "Home"]
  <2>1. b \in App /\ b.at \in {"Home", "Error"} /\ b.keychain_enabled \in BOOLEAN
    BY <1>0, ScreenNames DEF App
  <2>2. SaveToKeychain(i, b)
    BY <1>2 DEF SetUpKeychain
  <2>3. /\ keychain' \in Pass \cup {"none"}
        /\ app' \in [Instance -> App] /\ \A j \in Instance : Goes(app'[j])
    BY <2>1, <2>2, KeychainTypes
  <2> QED
    BY <1>2, <2>3 DEF SetUpKeychain, Types, TypeOK, ReaderGoes, Goes, Listed, Has, IndexOf
<1> QED
  BY <1>1, <1>2

LEMMA SaveTypes ==
  ASSUME Types, NEW i \in Instance,
         SaveOpen(i) \/ SaveWrite(i) \/ SaveRename(i) \/ SaveFails(i)
  PROVE  Types'
<1>0. app[i] \in App /\ NoFile \in File /\ Partial \in File /\ Image(app[i]) \in File
      /\ Absent \in Value /\ Empty \in Value
  BY FileTypes DEF Types, TypeOK, Value, App
<1> DEFINE At2(x) == [app[i] EXCEPT !.at = x]
           over == Over(app[i])
<1>1. ASSUME NEW x \in {"SaveWrite", "SaveRename"}
      PROVE  At2(x) \in App /\ Goes(At2(x))
  BY <1>0, ScreenNames DEF App, Goes, Forms
<1>2. over \in App
  BY <1>0 DEF Over, App
<1>3. CASE SaveOpen(i)
  <2>1. app' \in [Instance -> App] /\ \A j \in Instance : Goes(app'[j])
    BY <1>1, <1>3, Moves DEF SaveOpen
  <2> QED
    BY <1>0, <1>3, <2>1 DEF SaveOpen, Types, TypeOK, ReaderGoes, Goes, Listed, Has, IndexOf
<1>4. CASE SaveWrite(i)
  <2>1. app' \in [Instance -> App] /\ \A j \in Instance : Goes(app'[j])
    BY <1>1, <1>4, Moves DEF SaveWrite
  <2> QED
    BY <1>0, <1>4, <2>1 DEF SaveWrite, Types, TypeOK, ReaderGoes, Goes, Listed, Has, IndexOf
<1>5. CASE SaveRename(i)
  <2>1. Saved(app[i]) \in App /\ Goes(Saved(app[i]))
    <3>1. LET a == [over EXCEPT !.at = "Keychain"] IN a \in App /\ Goes(a)
      BY <1>2, ScreenNames DEF App, Goes, Forms
    <3>2. EnterHome(over) \in App /\ Goes(EnterHome(over))
      BY <1>2, HomeTypes
    <3> QED
      BY <3>1, <3>2 DEF Saved
  <2>2. app' \in [Instance -> App] /\ \A j \in Instance : Goes(app'[j])
    BY <1>5, <2>1, Moves DEF SaveRename
  <2> QED
    BY <1>0, <1>5, <2>2 DEF SaveRename, Types, TypeOK, ReaderGoes, Goes, Listed, Has, IndexOf
<1>6. CASE SaveFails(i)
  <2>1. LET a == [over EXCEPT !.at = "Keychain", !.fatal = TRUE] IN a \in App /\ Goes(a)
    <3> HIDE DEF over
    <3> QED
      BY <1>2, ScreenNames DEF App, Goes, Forms
  <2>2. LET a == Fail(Restore(app[i])) IN a \in App /\ Goes(a)
    <3> DEFINE r == [app[i] EXCEPT !.profiles[app[i].changed] = app[i].old]
    <3>1. r \in App
      BY <1>0 DEF App, Profiles
    <3>2. Over(r) \in App
      BY <1>0, <3>1 DEF Over, App
    <3>3. Fail(Over(r)) \in App /\ Fail(Over(r)).at = "Error"
      BY <3>2, ScreenNames DEF Fail, App
    <3> QED
      BY <3>3 DEF Restore, Goes, Forms
  <2> QED
    BY <1>6, <2>1, <2>2, ScreenTypes DEF SaveFails
<1> QED
  BY <1>3, <1>4, <1>5, <1>6

LEMMA CommitTypes ==
  ASSUME Types, NEW i \in Instance, app[i].at \in Forms, CommitProfile(i), UNCHANGED Screens
  PROVE  Types'
<1> DEFINE a == app[i]
           b == [a EXCEPT !.changed = a.name, !.old = a.profiles[a.name],
                          !.profiles[a.name] = a.secret]
           c == [b EXCEPT !.at = "SaveOpen", !.then = "commit"]
<1>1. a \in App /\ a.name \in Name
  BY DEF Types, TypeOK, Goes
<1>2. Fail(a) \in App /\ Goes(Fail(a))
  BY <1>1, ScreenNames DEF Fail, App, Goes, Forms
<1>3. b \in App
  BY <1>1 DEF App, Profiles
<1>4. c \in App /\ Goes(c)
  <2> HIDE DEF b
  <2>1. c \in App
    BY <1>3, ScreenNames DEF App
  <2>2. c.at = "SaveOpen"
    BY <1>3 DEF App
  <2> QED
    BY <2>1, <2>2 DEF Goes, Forms
<1>5. Becomes(i, Fail(a)) \/ Becomes(i, c)
  BY DEF CommitProfile, StartSave
<1> QED
  BY <1>2, <1>4, <1>5, ScreenTypes

LEMMA FormTypes ==
  ASSUME Types, NEW i \in Instance,
         \/ NewProfile(i) \/ EnterName(i) \/ EditProfile(i) \/ NextForm(i)
         \/ EnterSecret(i) \/ Verify(i) \/ VerifyFailedKey(i)
  PROVE  Types'
<1> DEFINE a == app[i]
           Is(x) == [a EXCEPT !.at = x]
<1>0. a \in App /\ Goes(a) /\ UNCHANGED Screens
  BY DEF Types, TypeOK, NewProfile, EnterName, EditProfile, NextForm, EnterSecret, Verify,
         VerifyFailedKey
<1>1. CASE NewProfile(i)
  <2>1. LET b == [EnterHome(a) EXCEPT !.at = "Name"] IN b \in App /\ Goes(b)
    BY <1>0, HomeTypes, ScreenNames DEF App, Goes, Forms
  <2> QED
    BY <1>0, <1>1, <2>1, ScreenTypes DEF NewProfile
<1>2. CASE EnterName(i)
  <2>1. Fail(a) \in App /\ Goes(Fail(a))
    BY <1>0, ScreenNames DEF Fail, App, Goes, Forms
  <2>2. ASSUME NEW n \in Name
        PROVE  LET b == [a EXCEPT !.at = "Backend", !.name = n, !.asked = n]
               IN b \in App /\ Goes(b)
    BY <1>0, ScreenNames DEF App, Goes, Forms
  <2> QED
    BY <1>0, <1>2, <2>1, <2>2, ScreenTypes DEF EnterName
<1>3. CASE EditProfile(i)
  <2>1. PICK n \in Listed(a) :
          Becomes(i, [a EXCEPT !.at = "Location", !.name = n, !.editing = TRUE,
                               !.secret = a.profiles[n], !.asked = n])
    BY <1>3 DEF EditProfile
  <2> DEFINE b == [a EXCEPT !.at = "Location", !.name = n, !.editing = TRUE,
                            !.secret = a.profiles[n], !.asked = n]
  <2>2. n \in Name /\ a.profiles[n] \in Value
    BY <1>0 DEF Listed, App, Profiles
  <2>3. b \in App
    BY <1>0, <2>2, ScreenNames DEF App
  <2>4. b.at = "Location" /\ b.name = n
    BY <1>0 DEF App
  <2> QED
    BY <1>0, <2>1, <2>2, <2>3, <2>4, ScreenTypes DEF Goes
<1>4. CASE NextForm(i)
  <2>1. a.name \in Name
    BY <1>0, <1>4 DEF NextForm, At, Goes, Forms
  <2>2. ASSUME NEW x \in {"Location", "Password"}
        PROVE  Is(x) \in App /\ Goes(Is(x))
    BY <1>0, <2>1, ScreenNames DEF App, Goes, Forms
  <2> QED
    BY <1>0, <1>4, <2>2, ScreenTypes DEF NextForm
<1>5. CASE EnterSecret(i)
  <2>1. a.name \in Name
    BY <1>0, <1>5 DEF EnterSecret, At, Goes, Forms
  <2>2. ASSUME NEW v \in Typed
        PROVE  LET b == [a EXCEPT !.at = "Verifying", !.secret = v] IN b \in App /\ Goes(b)
    BY <1>0, <2>1, ScreenNames DEF App, Value, Goes, Forms
  <2> QED
    BY <1>0, <1>5, <2>2, ScreenTypes DEF EnterSecret
<1>6. CASE Verify(i)
  <2>1. a.at \in Forms /\ a.name \in Name
    BY <1>0, <1>6 DEF Verify, At, Goes, Forms
  <2>2. Is("VerifyFailed") \in App /\ Goes(Is("VerifyFailed"))
    BY <1>0, <2>1, ScreenNames DEF App, Goes, Forms
  <2> QED
    BY <1>0, <1>6, <2>1, <2>2, ScreenTypes, CommitTypes DEF Verify
<1>7. CASE VerifyFailedKey(i)
  <2>1. a.at \in Forms /\ a.name \in Name
    BY <1>0, <1>7 DEF VerifyFailedKey, At, Goes, Forms
  <2>2. Is("Location") \in App /\ Goes(Is("Location"))
    BY <1>0, <2>1, ScreenNames DEF App, Goes, Forms
  <2> QED
    BY <1>0, <1>7, <2>1, <2>2, ScreenTypes, CommitTypes DEF VerifyFailedKey
<1> QED
  BY <1>1, <1>2, <1>3, <1>4, <1>5, <1>6, <1>7

LEMMA DeleteTypes ==
  ASSUME Types, NEW i \in Instance, AskDelete(i) \/ ConfirmDelete(i)
  PROVE  Types'
<1> DEFINE a == app[i]
<1>0. a \in App /\ Goes(a) /\ UNCHANGED Screens
  BY DEF Types, TypeOK, AskDelete, ConfirmDelete
<1>1. CASE AskDelete(i)
  <2>1. PICK n \in Listed(a) :
          Becomes(i, [a EXCEPT !.at = "ConfirmDelete", !.asked = n, !.pending = IndexOf(a, n)])
    BY <1>1 DEF AskDelete
  <2> DEFINE b == [a EXCEPT !.at = "ConfirmDelete", !.asked = n, !.pending = IndexOf(a, n)]
  <2>2. n \in Name /\ IndexOf(a, n) \in Nat
    BY IndexTypes DEF Listed
  <2>3. b \in App
    BY <1>0, <2>2, ScreenNames DEF App
  <2>4. b.at = "ConfirmDelete" /\ b.pending = IndexOf(a, n) /\ b.profiles = a.profiles
    BY <1>0 DEF App
  <2>5. Listed(b) = Listed(a) /\ IndexOf(b, n) = IndexOf(a, n)
    BY <2>4 DEF Listed, Has, IndexOf
  <2>6. Goes(b)
    BY <2>4, <2>5 DEF Goes, Forms
  <2> QED
    BY <1>0, <2>1, <2>3, <2>6, ScreenTypes
<1>2. CASE ConfirmDelete(i)
  <2> DEFINE n == NameAt(a, a.pending)
             b == [a EXCEPT !.changed = n, !.old = a.profiles[n], !.pending = 0,
                            !.profiles[n] = Absent]
             c == [b EXCEPT !.at = "SaveOpen", !.then = "delete"]
  <2>1. n \in Name
    BY <1>0, <1>2, Asked DEF ConfirmDelete, At
  <2> HIDE DEF n
  <2>2. a.profiles[n] \in Value /\ Absent \in Value
    BY <1>0, <2>1 DEF App, Profiles, Value
  <2>3. b \in App
    BY <1>0, <2>1, <2>2 DEF App, Profiles
  <2>4. c \in App /\ Goes(c)
    <3> HIDE DEF b
    <3> QED
      BY <2>3, ScreenNames DEF App, Goes, Forms
  <2>5. Becomes(i, c)
    BY <1>2 DEF ConfirmDelete, StartSave, n
  <2> QED
    BY <1>0, <2>4, <2>5, ScreenTypes
<1> QED
  BY <1>1, <1>2

LEMMA EscapeTypes ==
  ASSUME Types, NEW i \in Instance, Escape(i)
  PROVE  Types'
<1> DEFINE a == app[i]
<1>0. a \in App /\ Goes(a) /\ UNCHANGED Screens /\ Empty \in Value
  BY DEF Types, TypeOK, Escape, Value
<1>1. EnterHome(a) \in App /\ Goes(EnterHome(a))
  BY <1>0, HomeTypes
<1>2. LET b == [a EXCEPT !.at = "Home", !.pending = 0, !.asked = 0] IN b \in App /\ Goes(b)
  BY <1>0, ScreenNames DEF App, Goes, Forms
<1>3. LET b == [a EXCEPT !.at = "Name"] IN b \in App /\ Goes(b)
  BY <1>0, ScreenNames DEF App, Goes, Forms
<1>4. ASSUME a.at \in Forms
      PROVE  LET b == [a EXCEPT !.at = "Backend"] IN b \in App /\ Goes(b)
  BY <1>0, <1>4, ScreenNames DEF App, Goes, Forms
<1>5. ASSUME a.at \in Forms
      PROVE  LET b == [a EXCEPT !.at = "Location", !.secret = Empty] IN b \in App /\ Goes(b)
  BY <1>0, <1>5, ScreenNames DEF App, Goes, Forms
<1>6. LET b == [a EXCEPT !.at = "InstancePrompt", !.input = "none"] IN b \in App /\ Goes(b)
  BY <1>0, ScreenNames DEF App, Goes, Forms
<1>7. \E b \in App : Goes(b) /\ Becomes(i, b)
  BY <1>1, <1>2, <1>3, <1>4, <1>5, <1>6 DEF Escape, Forms
<1> QED
  BY <1>0, <1>7, ScreenTypes

LEMMA ReaderTypes ==
  ASSUME Types, ReaderPeek \/ ReaderUnlock \/ ReaderPrompt \/ ReaderLoad \/ ReaderAgain
  PROVE  Types'
<1>0. /\ reader \in [at : {"Idle", "Peeked", "Prompt", "Load", "Done", "Refused", "Broken"},
                     meta : AKey, tries : 0..3]
      /\ ReaderGoes /\ file.meta \in AKey
  BY DEF Types, TypeOK, File
<1>1. UNCHANGED <<file, tmp, holder, keychain, setups, app>>
  BY DEF ReaderPeek, ReaderUnlock, ReaderPrompt, ReaderLoad, ReaderAgain, Read, TryPassphrase
<1>2. /\ reader' \in [at : {"Idle", "Peeked", "Prompt", "Load", "Done", "Refused", "Broken"},
                      meta : AKey, tries : 0..3]
      /\ ReaderGoes'
  <2>1. CASE ReaderPeek
    BY <1>0, <2>1 DEF ReaderPeek, Read, ReaderGoes
  <2>2. CASE ReaderUnlock
    BY <1>0, <2>2 DEF ReaderUnlock, TryPassphrase, Read, ReaderGoes
  <2>3. CASE ReaderPrompt
    <3>1. reader.at = "Prompt" /\ reader.tries \in 0..2
      BY <1>0, <2>3 DEF ReaderPrompt, ReaderGoes
    <3> DEFINE again == [reader EXCEPT !.tries = reader.tries + 1,
                                       !.at = IF reader.tries = 2 THEN "Refused" ELSE reader.at]
    <3>2. reader' = [reader EXCEPT !.at = "Load"] \/ reader' = again
      BY <2>3, Zenon DEF ReaderPrompt, TryPassphrase, Read
    <3>3. CASE reader' = [reader EXCEPT !.at = "Load"]
      BY <1>0, <3>3 DEF ReaderGoes
    <3>4. CASE reader' = again
      <4>1. reader.tries + 1 \in 0..3 /\ (reader.tries # 2 => reader.tries + 1 < 3)
        BY <3>1
      <4>2. CASE reader.tries = 2
        BY <1>0, <3>4, <4>1, <4>2 DEF ReaderGoes
      <4>3. CASE reader.tries # 2
        BY <1>0, <3>1, <3>4, <4>1, <4>3 DEF ReaderGoes
      <4> QED
        BY <4>2, <4>3
    <3> QED
      BY <3>2, <3>3, <3>4
  <2>4. CASE ReaderLoad
    BY <1>0, <2>4 DEF ReaderLoad, Read, ReaderGoes
  <2>5. CASE ReaderAgain
    BY <1>0, <2>5, Keys DEF ReaderAgain, Read, ReaderGoes, Idle
  <2> QED
    BY <2>1, <2>2, <2>3, <2>4, <2>5
<1> QED
  BY <1>1, <1>2 DEF Types, TypeOK, Goes, Listed, Has, IndexOf

LEMMA TypesStep == Types /\ [Next]_vars => Types'
<1> SUFFICES ASSUME Types, [Next]_vars PROVE Types'
  OBVIOUS
<1>1. ASSUME NEW i \in Instance, Step(i) PROVE Types'
  BY <1>1, LaunchTypes, ExitTypes, PassphraseTypes, UnlockTypes, SetUpTypes, SaveTypes,
     FormTypes, DeleteTypes, EscapeTypes DEF Step
<1>2. CASE ReaderPeek \/ ReaderUnlock \/ ReaderPrompt \/ ReaderLoad \/ ReaderAgain
  BY <1>2, ReaderTypes
<1>3. CASE UNCHANGED vars
  BY <1>3 DEF vars, Types, TypeOK, ReaderGoes, Goes, Listed, Has, IndexOf
<1> QED
  BY <1>1, <1>2, <1>3 DEF Next

\* Every variable of ConfigStore has its type, whatever users type.
THEOREM TypeCorrect == Spec => []TypeOK
<1>1. Init => Types
  BY InitTypes
<1>2. Types /\ [Next]_vars => Types'
  BY TypesStep
<1>3. Types => TypeOK
  BY DEF Types
<1> QED
  BY <1>1, <1>2, <1>3, PTL DEF Spec

----------------------------------------------------------------------------
(* Encryption.  Users type texts, never what looks encrypted. *)
PlainTyped == Typed \subseteq {Empty} \cup {Plain(t) : t \in Text}

PlainValue == {Plain(t) : t \in Text \cup {"", "absent"}}

LEMMA PlainValues == Empty \in PlainValue /\ Absent \in PlainValue
BY DEF PlainValue, Empty, Absent

\* Decrypting what was encrypted under a key gives it back.
LEMMA DecryptEncrypt ==
  ASSUME NEW v \in PlainValue, NEW k
  PROVE  Decrypts(Encrypt(v, k), k) /\ Decrypt(Encrypt(v, k), k) = v
<1>1. CASE v \in {Empty, Absent}
  BY <1>1 DEF Encrypt, Decrypts, Decrypt
<1>2. CASE v \notin {Empty, Absent}
  <2>1. PICK t \in Text : v = Plain(t)
    BY <1>2 DEF PlainValue, Empty, Absent
  <2>2. t # "" /\ t # "absent"
    BY ConfigConstants
  <2>3. Encrypt(v, k) = [under |-> k, text |-> t]
    BY <1>2, <2>1 DEF Encrypt, Plain
  <2>4. [under |-> k, text |-> t] \notin {Empty, Absent}
    BY <2>2 DEF Empty, Absent, Plain
  <2> QED
    BY <2>1, <2>3, <2>4 DEF Decrypts, Decrypt
<1> QED
  BY <1>1, <1>2

LEMMA DecryptPlain ==
  ASSUME NEW v \in Value, NEW k
  PROVE  Decrypt(v, k) \in PlainValue
<1>1. CASE v \in {Empty, Absent}
  BY <1>1, PlainValues DEF Decrypt
<1>2. CASE v \notin {Empty, Absent}
  <2>1. v.text \in Text
    BY <1>2, ConfigConstants DEF Value
  <2> QED
    BY <1>2, <2>1 DEF Decrypt, PlainValue
<1> QED
  BY <1>1, <1>2

PlainApp(a) ==
  /\ \A n \in Name : a.profiles[n] \in PlainValue
  /\ a.secret \in PlainValue /\ a.old \in PlainValue

\* What an instance saves opens under its key as what it has in memory.
LEMMA ImageOpens ==
  ASSUME NEW a \in App, PlainApp(a)
  PROVE  /\ Opens(Image(a), a.cipher)
         /\ Opened(Image(a), a.cipher) = a.profiles
         /\ Image(a).is = "whole" /\ Image(a).meta = a.meta
<1>1. /\ Image(a).is = "whole" /\ Image(a).meta = a.meta
      /\ \A n \in Name : Image(a).profiles[n] = Encrypt(a.profiles[n], a.cipher)
  BY DEF Image
<1>2. Opens(Image(a), a.cipher)
  BY <1>1, DecryptEncrypt DEF Opens, PlainApp
<1>3. Opened(Image(a), a.cipher) = [n \in Name |-> a.profiles[n]]
  BY <1>1, DecryptEncrypt DEF Opened, PlainApp
<1>4. a.profiles \in [Name -> Value]
  BY DEF App, Profiles
<1> QED
  BY <1>1, <1>2, <1>3, <1>4

----------------------------------------------------------------------------
(* Rows. *)

\* Two rows have different indices.
LEMMA IndexInjective ==
  ASSUME NEW a, NEW m \in Listed(a), NEW n \in Listed(a), IndexOf(a, m) = IndexOf(a, n)
  PROVE  m = n
<1>0. IsFiniteSet(Name)
  BY FS_Interval, Bounds DEF Name
<1>1. Listed(a) \subseteq Name /\ \A x \in Listed(a) : x \in Int
  BY Bounds DEF Listed, Name
<1>2. ASSUME NEW p \in Listed(a), NEW q \in Listed(a), p < q
      PROVE  IndexOf(a, p) # IndexOf(a, q)
  <2> DEFINE P == {x \in Listed(a) : x < p}
             Q == {x \in Listed(a) : x < q}
  <2>1. P \subseteq Q /\ p \in Q /\ p \notin P
    <3>1. \A x \in Listed(a) : x < p => x < q
      BY <1>1, <1>2
    <3>2. p < q /\ ~(p < p)
      BY <1>1, <1>2
    <3> QED
      BY <3>1, <3>2
  <2>2. IsFiniteSet(Q)
    BY <1>0, <1>1, FS_Subset
  <2>3. Cardinality(P) # Cardinality(Q)
    BY <2>1, <2>2, FS_Subset, FS_CardinalityType
  <2> QED
    BY <2>3 DEF IndexOf
<1>3. m < n \/ n < m \/ m = n
  BY <1>1
<1> QED
  BY <1>2, <1>3

----------------------------------------------------------------------------
(* The invariant: what an instance knows of the file on each screen. *)
Disk(a, f) ==
  /\ f.is = "whole" /\ f.meta = a.meta /\ a.cipher = a.meta
  /\ Opened(f, a.cipher) = a.profiles

\* A set-up finds no file.
FirstSave(a, f) ==
  /\ a.then = "setup" /\ f.is = "none"
  /\ a.cipher = a.meta /\ a.meta # NoKey /\ a.cipher.pass = a.input
  /\ a.profiles = NoProfiles

\* Any other save changes the one profile that was asked about.
OtherSave(a, f) ==
  /\ a.then # "setup" /\ f.is = "whole"
  /\ a.cipher = a.meta /\ a.meta = f.meta
  /\ a.changed \in Name /\ a.changed = a.asked
  /\ Opened(f, a.cipher) = [a.profiles EXCEPT ![a.changed] = a.old]

Local(a, f, t) ==
  /\ a.at \in {"InstancePrompt", "Setup"} => f.is = "none"
  /\ a.at = "Deriving" /\ a.phase = "Setup" => f.is = "none"
  /\ a.at = "Setup" => a.phase = "Setup"
  /\ a.at \in {"AuthMethod", "Unlock"} => a.phase = "Unlock"
  /\ a.at \in {"AuthMethod", "Unlock", "Deriving"} /\ a.phase = "Unlock"
       => f.is = "whole" /\ a.meta = f.meta
  /\ Unlocked(a) => Disk(a, f)
  /\ a.at \in Saving => FirstSave(a, f) \/ OtherSave(a, f)
  /\ a.at = "SaveRename" => t = Image(a)
  /\ a.at = "Keychain" =>
       a.cipher.pass = a.input /\ ((a.fatal /\ f.is = "none") \/ Disk(a, f))
  /\ a.env => a.at = "Deriving" /\ a.phase = "Unlock" /\ ~a.save
  /\ a.at \in Forms => a.name = a.asked
  /\ a.at = "ConfirmDelete" => a.asked = NameAt(a, a.pending)

Mine(i) == app[i].at # "Off" => holder = i

ReaderInv ==
  /\ reader.at \in {"Peeked", "Prompt", "Load"} => file.is = "whole" /\ reader.meta = file.meta
  /\ reader.at # "Broken"

FileInv == FileOpens /\ (file.is = "none" => file = NoFile)

Inv == /\ FileInv /\ ReaderInv
       /\ \A i \in Instance : Mine(i) /\ PlainApp(app[i]) /\ Local(app[i], file, tmp)

LEMMA FreshLocal ==
  PlainApp(Fresh) /\ \A f, t : Local(Fresh, f, t)
<1>1. PlainApp(Fresh)
  BY PlainValues DEF PlainApp, Fresh, NoProfiles
<1>2. Fresh.at = "Off" /\ Fresh.env = FALSE
  BY DEF Fresh
<1> QED
  BY <1>1, <1>2 DEF Local, Unlocked, Saving, Forms

LEMMA InitInv == Init => Inv
<1> SUFFICES ASSUME Init PROVE Inv
  OBVIOUS
<1>1. FileInv /\ ReaderInv
  BY DEF Init, FileInv, FileOpens, ReaderInv, NoFile, Idle
<1>2. \A i \in Instance : Mine(i) /\ PlainApp(app[i]) /\ Local(app[i], file, tmp)
  BY FreshLocal DEF Init, Mine, Fresh
<1> QED
  BY <1>1, <1>2 DEF Inv

\* While one instance has the lock, the others are off.
LEMMA Alone ==
  ASSUME Inv, NEW i \in Instance, app[i].at # "Off" \/ holder = NoOne,
         NEW j \in Instance, j # i
  PROVE  /\ app[j].at = "Off"
         /\ \A f, t : Local(app[j], f, t)
<1>1. app[j].at = "Off"
  BY ConfigConstants DEF Inv, Mine
<1>2. ~app[j].env
  BY <1>1 DEF Inv, Local
<1> QED
  BY <1>1, <1>2 DEF Local, Unlocked, Saving, Forms

\* So a step of one instance has to be looked at for it alone.
LEMMA Steps1 ==
  ASSUME Types, Inv, NEW i \in Instance, NEW a \in App, Becomes(i, a),
         app[i].at # "Off" \/ holder = NoOne,
         a.at # "Off" => holder' = i,
         PlainApp(a), Local(a, file', tmp')
  PROVE  \A j \in Instance : Mine(j)' /\ PlainApp(app[j])' /\ Local(app[j], file, tmp)'
<1>1. app' = [app EXCEPT ![i] = a] /\ app \in [Instance -> App]
  BY DEF Becomes, Types, TypeOK
<1> SUFFICES ASSUME NEW j \in Instance
             PROVE  Mine(j)' /\ PlainApp(app[j])' /\ Local(app[j], file, tmp)'
  OBVIOUS
<1>2. CASE j = i
  <2>1. app'[j] = a
    BY <1>1, <1>2
  <2> QED
    BY <1>2, <2>1 DEF Mine, PlainApp, Local, Unlocked, Disk, FirstSave, OtherSave, Image, NameAt, Listed, Has, IndexOf
<1>3. CASE j # i
  <2>1. app'[j] = app[j]
    BY <1>1, <1>3
  <2>2. app[j].at = "Off" /\ Local(app[j], file', tmp') /\ PlainApp(app[j])
    BY <1>3, Alone DEF Inv
  <2> QED
    BY <2>1, <2>2 DEF Mine, PlainApp, Local, Unlocked, Disk, FirstSave, OtherSave, Image, NameAt, Listed, Has, IndexOf
<1> QED
  BY <1>2, <1>3

\* Where file and instances stay, so does all that is known of them.
LEMMA Unmoved ==
  ASSUME Inv, UNCHANGED <<file, tmp, holder, app>>
  PROVE  \A j \in Instance : Mine(j)' /\ PlainApp(app[j])' /\ Local(app[j], file, tmp)'
<1> SUFFICES ASSUME NEW j \in Instance
             PROVE  Mine(j)' /\ PlainApp(app[j])' /\ Local(app[j], file, tmp)'
  OBVIOUS
<1>1. app'[j] = app[j] /\ holder' = holder
  OBVIOUS
<1>2. Local(app[j], file', tmp') /\ PlainApp(app[j]) /\ Mine(j)
  BY DEF Inv
<1> QED
  BY <1>1, <1>2 DEF Mine, PlainApp, Local, Unlocked, Disk, FirstSave, OtherSave, Image, NameAt, Listed, Has, IndexOf

LEMMA ScreenInv ==
  ASSUME Types, Inv, NEW i \in Instance, app[i].at # "Off", UNCHANGED Screens,
         NEW a \in App, Becomes(i, a), PlainApp(a), Local(a, file, tmp)
  PROVE  Inv'
<1>1. /\ FileInv' /\ ReaderInv'
  BY DEF Inv, FileInv, FileOpens, ReaderInv, Screens, Opens
<1>2. holder' = i /\ file' = file /\ tmp' = tmp
  BY DEF Inv, Mine, Screens
<1>3. \A j \in Instance : Mine(j)' /\ PlainApp(app[j])' /\ Local(app[j], file, tmp)'
  BY <1>2, Steps1
<1> QED
  BY <1>1, <1>3 DEF Inv

----------------------------------------------------------------------------
(* Behind the unlock: moves that keep the configuration in memory. *)
Kept(a, b) == /\ b.meta = a.meta /\ b.cipher = a.cipher
              /\ b.profiles = a.profiles /\ b.env = a.env

LEMMA Roams ==
  ASSUME NEW a \in App, NEW b \in App, NEW f, NEW t, Local(a, f, t), Unlocked(a), Kept(a, b),
         Unlocked(b) \/ b.at = "Error",
         b.at \in Forms => b.name = b.asked,
         b.at = "ConfirmDelete" => b.asked = NameAt(b, b.pending)
  PROVE  Local(b, f, t)
<1>1. Disk(b, f)
  BY DEF Local, Kept, Disk
<1>2. ~b.env
  BY DEF Local, Kept, Unlocked
<1> QED
  BY <1>1, <1>2 DEF Local, Unlocked, Saving

LEMMA NameAtKept ==
  ASSUME NEW a, NEW b, b.profiles = a.profiles, NEW k
  PROVE  NameAt(b, k) = NameAt(a, k) /\ Listed(b) = Listed(a)
BY DEF NameAt, Listed, Has, IndexOf

LEMMA CommitInv ==
  ASSUME Types, Inv, NEW i \in Instance, app[i].at \in {"Verifying", "VerifyFailed"},
         CommitProfile(i), UNCHANGED Screens
  PROVE  Inv'
<1> DEFINE a == app[i]
           b == [a EXCEPT !.changed = a.name, !.old = a.profiles[a.name],
                          !.profiles[a.name] = a.secret]
           c == [b EXCEPT !.at = "SaveOpen", !.then = "commit"]
<1>1. /\ a \in App /\ a.name \in Name /\ a.name = a.asked
      /\ PlainApp(a) /\ Local(a, file, tmp) /\ Unlocked(a) /\ Disk(a, file) /\ ~a.env
  BY DEF Types, TypeOK, Goes, Inv, Local, Forms, Unlocked
<1>2. Fail(a) \in App /\ Kept(a, Fail(a)) /\ Fail(a).at = "Error" /\ PlainApp(Fail(a))
  BY <1>1, ScreenNames DEF Fail, App, Kept, PlainApp
<1>3. Local(Fail(a), file, tmp)
  BY <1>1, <1>2, Roams DEF Forms
<1>4. /\ b \in App /\ b.changed = a.name /\ b.old = a.profiles[a.name] /\ b.asked = a.asked
      /\ b.profiles = [a.profiles EXCEPT ![a.name] = a.secret]
      /\ b.meta = a.meta /\ b.cipher = a.cipher /\ b.env = a.env /\ b.secret = a.secret
  BY <1>1 DEF App, Profiles
<1>5. PlainApp(b)
  BY <1>1, <1>4 DEF PlainApp, App, Profiles
<1>6. [b.profiles EXCEPT ![b.changed] = b.old] = a.profiles
  BY <1>1, <1>4 DEF App, Profiles
<1> HIDE DEF b
<1>7. /\ c \in App /\ c.at = "SaveOpen" /\ c.then = "commit" /\ c.changed = b.changed
      /\ c.old = b.old /\ c.asked = b.asked /\ c.profiles = b.profiles
      /\ c.meta = b.meta /\ c.cipher = b.cipher /\ c.env = b.env /\ c.secret = b.secret
  BY <1>4, ScreenNames DEF App
<1>8. PlainApp(c)
  BY <1>5, <1>7 DEF PlainApp
<1> HIDE DEF c
<1>9. OtherSave(c, file)
  BY <1>1, <1>4, <1>6, <1>7 DEF OtherSave, Disk
<1>10. Local(c, file, tmp)
  BY <1>1, <1>4, <1>7, <1>9 DEF Local, Unlocked, Saving, Forms
<1>11. Becomes(i, Fail(a)) \/ Becomes(i, c)
  BY DEF CommitProfile, StartSave, b, c
<1> QED
  BY <1>1, <1>2, <1>3, <1>7, <1>8, <1>10, <1>11, ScreenInv

LEMMA FormInv ==
  ASSUME PlainTyped, Types, Inv, NEW i \in Instance,
         \/ NewProfile(i) \/ EnterName(i) \/ EditProfile(i) \/ NextForm(i)
         \/ EnterSecret(i) \/ Verify(i) \/ VerifyFailedKey(i)
  PROVE  Inv'
<1> DEFINE a == app[i]
           Is(x) == [a EXCEPT !.at = x]
<1>0. a \in App /\ UNCHANGED Screens /\ PlainApp(a) /\ Local(a, file, tmp)
      /\ Unlocked(a) /\ a.at # "Off"
  BY DEF Types, TypeOK, Inv, NewProfile, EnterName, EditProfile, NextForm, EnterSecret, Verify,
         VerifyFailedKey, Unlocked, At
<1>1. ASSUME NEW b \in App, Kept(a, b), PlainApp(b), Unlocked(b) \/ b.at = "Error",
             b.at \in Forms => b.name = b.asked, b.at # "ConfirmDelete", Becomes(i, b)
      PROVE  Inv'
  BY <1>0, <1>1, Roams, ScreenInv
<1>2. CASE NewProfile(i)
  <2> DEFINE b == [EnterHome(a) EXCEPT !.at = "Name"]
  <2>1. EnterHome(a) \in App /\ Kept(a, EnterHome(a)) /\ PlainApp(EnterHome(a))
    BY <1>0, HomeTypes, PlainValues DEF EnterHome, Kept, PlainApp, App
  <2>2. b \in App /\ b.at = "Name" /\ Kept(a, b) /\ PlainApp(b)
    BY <2>1, ScreenNames DEF App, Kept, PlainApp
  <2> QED
    BY <1>1, <1>2, <2>2 DEF NewProfile, Unlocked, Forms
<1>3. CASE EnterName(i)
  <2>1. Fail(a) \in App /\ Kept(a, Fail(a)) /\ Fail(a).at = "Error" /\ PlainApp(Fail(a))
    BY <1>0, ScreenNames DEF Fail, App, Kept, PlainApp
  <2>2. ASSUME NEW n \in Name
        PROVE  LET b == [a EXCEPT !.at = "Backend", !.name = n, !.asked = n]
               IN b \in App /\ Kept(a, b) /\ b.at = "Backend" /\ b.name = b.asked /\ PlainApp(b)
    BY <1>0, ScreenNames DEF App, Kept, PlainApp
  <2> QED
    BY <1>1, <1>3, <2>1, <2>2 DEF EnterName, Unlocked, Forms
<1>4. CASE EditProfile(i)
  <2>1. PICK n \in Listed(a) :
          Becomes(i, [a EXCEPT !.at = "Location", !.name = n, !.editing = TRUE,
                               !.secret = a.profiles[n], !.asked = n])
    BY <1>4 DEF EditProfile
  <2> DEFINE b == [a EXCEPT !.at = "Location", !.name = n, !.editing = TRUE,
                            !.secret = a.profiles[n], !.asked = n]
  <2>2. n \in Name /\ a.profiles[n] \in Value /\ a.profiles[n] \in PlainValue
    BY <1>0 DEF Listed, App, Profiles, PlainApp
  <2>3. b \in App
    BY <1>0, <2>2, ScreenNames DEF App
  <2>4. b.at = "Location" /\ b.name = b.asked /\ Kept(a, b) /\ b.secret = a.profiles[n]
        /\ b.old = a.old
    BY <1>0 DEF App, Kept
  <2>5. PlainApp(b)
    BY <1>0, <2>2, <2>4 DEF PlainApp, Kept
  <2> QED
    BY <1>1, <2>1, <2>3, <2>4, <2>5 DEF Unlocked
<1>5. ASSUME NEW x \in Forms, a.at \in Forms, Becomes(i, Is(x)) PROVE Inv'
  <2>1. a.name = a.asked
    BY <1>0, <1>5 DEF Local
  <2>2. Is(x) \in App /\ Is(x).at = x /\ Is(x).name = Is(x).asked /\ Kept(a, Is(x))
        /\ PlainApp(Is(x))
    BY <1>0, <2>1, ScreenNames DEF App, Kept, PlainApp, Forms
  <2> QED
    BY <1>1, <1>5, <2>2 DEF Unlocked, Forms
<1>6. CASE NextForm(i)
  BY <1>5, <1>6 DEF NextForm, At, Forms
<1>7. CASE EnterSecret(i)
  <2>1. PICK v \in Typed : Becomes(i, [a EXCEPT !.at = "Verifying", !.secret = v])
    BY <1>7 DEF EnterSecret
  <2> DEFINE b == [a EXCEPT !.at = "Verifying", !.secret = v]
  <2>2. a.name = a.asked /\ v \in PlainValue /\ v \in Value
    BY <1>0, <1>7 DEF EnterSecret, At, Local, Forms, PlainTyped, PlainValue, Empty, Value
  <2>3. b \in App /\ b.at = "Verifying" /\ b.name = b.asked /\ Kept(a, b) /\ PlainApp(b)
    BY <1>0, <2>2, ScreenNames DEF App, Kept, PlainApp
  <2> QED
    BY <1>1, <2>1, <2>3 DEF Unlocked
<1>8. CASE Verify(i)
  BY <1>0, <1>5, <1>8, CommitInv DEF Verify, At, Forms
<1>9. CASE VerifyFailedKey(i)
  BY <1>0, <1>5, <1>9, CommitInv DEF VerifyFailedKey, At, Forms
<1> QED
  BY <1>2, <1>3, <1>4, <1>6, <1>7, <1>8, <1>9

LEMMA DeleteInv ==
  ASSUME Types, Inv, NEW i \in Instance, AskDelete(i) \/ ConfirmDelete(i)
  PROVE  Inv'
<1> DEFINE a == app[i]
<1>0. a \in App /\ UNCHANGED Screens /\ PlainApp(a) /\ Local(a, file, tmp) /\ Goes(a)
      /\ Unlocked(a) /\ Disk(a, file) /\ ~a.env /\ a.at # "Off"
  BY DEF Types, TypeOK, Inv, AskDelete, ConfirmDelete, Unlocked, At, Local
<1>1. CASE AskDelete(i)
  <2>1. PICK n \in Listed(a) :
          Becomes(i, [a EXCEPT !.at = "ConfirmDelete", !.asked = n, !.pending = IndexOf(a, n)])
    BY <1>1 DEF AskDelete
  <2> DEFINE b == [a EXCEPT !.at = "ConfirmDelete", !.asked = n, !.pending = IndexOf(a, n)]
  <2>2. n \in Name /\ IndexOf(a, n) \in Nat
    BY IndexTypes DEF Listed
  <2>3. b \in App
    BY <1>0, <2>2, ScreenNames DEF App
  <2>4. b.at = "ConfirmDelete" /\ b.pending = IndexOf(a, n) /\ b.asked = n /\ Kept(a, b)
        /\ b.secret = a.secret /\ b.old = a.old
    BY <1>0 DEF App, Kept
  <2>5. NameAt(a, IndexOf(a, n)) = n
    BY IndexInjective DEF NameAt
  <2>6. b.asked = NameAt(b, b.pending)
    <3>1. b.profiles = a.profiles
      BY <2>4 DEF Kept
    <3> HIDE DEF b
    <3>2. NameAt(b, IndexOf(a, n)) = NameAt(a, IndexOf(a, n))
      BY <3>1, NameAtKept
    <3> QED
      BY <2>4, <2>5, <3>2
  <2>7. PlainApp(b)
    BY <1>0, <2>4 DEF PlainApp, Kept
  <2>8. Local(b, file, tmp)
    BY <1>0, <2>3, <2>4, <2>6, Roams DEF Unlocked, Forms
  <2> QED
    BY <1>0, <2>1, <2>3, <2>7, <2>8, ScreenInv
<1>2. CASE ConfirmDelete(i)
  <2> DEFINE n == NameAt(a, a.pending)
             b == [a EXCEPT !.changed = n, !.old = a.profiles[n], !.pending = 0,
                            !.profiles[n] = Absent]
             c == [b EXCEPT !.at = "SaveOpen", !.then = "delete"]
  <2>1. n \in Name /\ n = a.asked
    BY <1>0, <1>2, Asked DEF ConfirmDelete, At, Local
  <2> HIDE DEF n
  <2>2. a.profiles[n] \in Value /\ Absent \in Value
    BY <1>0, <2>1 DEF App, Profiles, Value
  <2>3. /\ b \in App /\ b.changed = n /\ b.old = a.profiles[n] /\ b.asked = a.asked
        /\ b.profiles = [a.profiles EXCEPT ![n] = Absent]
        /\ b.meta = a.meta /\ b.cipher = a.cipher /\ b.env = a.env /\ b.secret = a.secret
    BY <1>0, <2>1, <2>2 DEF App, Profiles
  <2>4. PlainApp(b)
    BY <1>0, <2>1, <2>3, PlainValues DEF PlainApp, App, Profiles
  <2>5. [b.profiles EXCEPT ![b.changed] = b.old] = a.profiles
    BY <1>0, <2>1, <2>3 DEF App, Profiles
  <2> HIDE DEF b
  <2>6. /\ c \in App /\ c.at = "SaveOpen" /\ c.then = "delete" /\ c.changed = b.changed
        /\ c.old = b.old /\ c.asked = b.asked /\ c.profiles = b.profiles
        /\ c.meta = b.meta /\ c.cipher = b.cipher /\ c.env = b.env /\ c.secret = b.secret
    BY <2>3, ScreenNames DEF App
  <2>7. PlainApp(c)
    BY <2>4, <2>6 DEF PlainApp
  <2> HIDE DEF c
  <2>8. OtherSave(c, file)
    BY <1>0, <2>1, <2>3, <2>5, <2>6 DEF OtherSave, Disk
  <2>9. Local(c, file, tmp)
    BY <1>0, <2>3, <2>6, <2>8 DEF Local, Unlocked, Saving, Forms
  <2>10. Becomes(i, c)
    BY <1>2 DEF ConfirmDelete, StartSave, n, b, c
  <2> QED
    BY <1>0, <2>6, <2>7, <2>9, <2>10, ScreenInv
<1> QED
  BY <1>1, <1>2

----------------------------------------------------------------------------
(* Up to the unlock. *)
LEMMA ManualLocal ==
  ASSUME NEW a \in App, NEW s \in BOOLEAN, NEW f, NEW t, PlainApp(a),
         \/ a.phase = "Setup" /\ f.is = "none"
         \/ a.phase = "Unlock" /\ f.is = "whole" /\ a.meta = f.meta
  PROVE  Manual(a, s) \in App /\ PlainApp(Manual(a, s)) /\ Local(Manual(a, s), f, t)
<1> DEFINE m == Manual(a, s)
<1>1. m \in App
  BY ManualTypes
<1>2. /\ m.at = IF a.phase = "Setup" THEN "Setup" ELSE "Unlock"
      /\ m.phase = a.phase /\ m.meta = a.meta /\ m.env = FALSE
      /\ m.profiles = a.profiles /\ m.secret = a.secret /\ m.old = a.old
  BY DEF Manual, App
<1> HIDE DEF m
<1>3. PlainApp(m)
  BY <1>2 DEF PlainApp
<1>4. Local(m, f, t)
  BY <1>2 DEF Local, Unlocked, Saving, Forms
<1> QED
  BY <1>1, <1>3, <1>4 DEF m

LEMMA StartLocal ==
  ASSUME Types, FileInv, NEW a \in App, NEW env \in Env, PlainApp(a), ~a.env
  PROVE  /\ PlainApp(Start(a, env)) /\ Local(Start(a, env), file, tmp)
<1> DEFINE u == [a EXCEPT !.meta = file.meta, !.phase = "Unlock"]
<1>1. /\ u \in App /\ u.meta = file.meta /\ u.phase = "Unlock" /\ u.env = FALSE
      /\ u.profiles = a.profiles /\ u.secret = a.secret /\ u.old = a.old
  BY DEF Types, TypeOK, File, App
<1> HIDE DEF u
<1>2. PlainApp(u)
  BY <1>1 DEF PlainApp
<1>3. CASE file.is = "none"
  <2> DEFINE x == [a EXCEPT !.at = "InstancePrompt"]
  <2>1. x.at = "InstancePrompt" /\ x.env = FALSE /\ PlainApp(x)
    BY DEF App, PlainApp
  <2> HIDE DEF x
  <2>2. Local(x, file, tmp)
    BY <1>3, <2>1 DEF Local, Unlocked, Saving, Forms
  <2> QED
    BY <1>3, <2>1, <2>2 DEF Start, x
<1>4. CASE file.is # "none"
  <2>0. file.is = "whole" /\ file.meta # NoKey
    BY <1>4 DEF FileInv, FileOpens, Opens
  <2>1. CASE env \in Pass
    <3> DEFINE x == [u EXCEPT !.at = "Deriving", !.input = env, !.env = TRUE, !.save = FALSE]
    <3>1. x.at = "Deriving" /\ x.phase = "Unlock" /\ x.save = FALSE /\ x.meta = file.meta
          /\ PlainApp(x)
      BY <1>1, <1>2 DEF App, PlainApp
    <3> HIDE DEF x
    <3>2. Local(x, file, tmp)
      BY <2>0, <3>1 DEF Local, Unlocked, Saving, Forms
    <3> QED
      BY <1>4, <2>0, <2>1, <3>1, <3>2 DEF Start, u, x
  <2>2. CASE env \notin Pass /\ env = "unset" /\ a.keychain_enabled
    <3> DEFINE x == [u EXCEPT !.at = "AuthMethod"]
    <3>1. x.at = "AuthMethod" /\ x.phase = "Unlock" /\ x.env = FALSE /\ x.meta = file.meta
          /\ PlainApp(x)
      BY <1>1, <1>2 DEF App, PlainApp
    <3> HIDE DEF x
    <3>2. Local(x, file, tmp)
      BY <2>0, <3>1 DEF Local, Unlocked, Saving, Forms
    <3> QED
      BY <1>4, <2>0, <2>2, <3>1, <3>2 DEF Start, u, x
  <2>3. CASE env \notin Pass /\ ~(env = "unset" /\ a.keychain_enabled)
    <3>1. PlainApp(Manual(u, FALSE)) /\ Local(Manual(u, FALSE), file, tmp)
      BY <1>1, <1>2, <2>0, ManualLocal
    <3> QED
      BY <1>4, <2>0, <2>3, <3>1 DEF Start, u
  <2> QED
    BY <2>1, <2>2, <2>3
<1> QED
  BY <1>3, <1>4

LEMMA LaunchInv ==
  ASSUME Types, Inv, NEW i \in Instance, Launch(i)
  PROVE  Inv'
<1>1. PICK k \in BOOLEAN, env \in Env :
        Becomes(i, Start([Fresh EXCEPT !.keychain_enabled = k], env))
  BY DEF Launch
<1> DEFINE a == [Fresh EXCEPT !.keychain_enabled = k]
<1>2. a \in App /\ PlainApp(a) /\ ~a.env
  BY FreshTypes, FreshLocal DEF App, PlainApp, Fresh
<1>3. Start(a, env) \in App /\ PlainApp(Start(a, env)) /\ Local(Start(a, env), file, tmp)
  BY <1>2, StartTypes, StartLocal DEF Inv
<1>4. holder' = i /\ holder = NoOne /\ UNCHANGED <<file, tmp, reader>>
  BY DEF Launch
<1>5. \A j \in Instance : Mine(j)' /\ PlainApp(app[j])' /\ Local(app[j], file, tmp)'
  BY <1>1, <1>3, <1>4, Steps1
<1> QED
  BY <1>4, <1>5 DEF Inv, FileInv, FileOpens, Opens, ReaderInv

LEMMA ExitInv ==
  ASSUME Types, Inv, NEW i \in Instance, Exit(i)
  PROVE  Inv'
<1>1. \A j \in Instance : Mine(j)' /\ PlainApp(app[j])' /\ Local(app[j], file, tmp)'
  BY FreshTypes, FreshLocal, Steps1 DEF Exit, At, Fresh
<1> QED
  BY <1>1 DEF Exit, Inv, FileInv, FileOpens, Opens, ReaderInv

LEMMA PassphraseInv ==
  ASSUME Types, Inv, NEW i \in Instance,
         SubmitInstance(i) \/ SubmitPassphrase(i) \/ ActivateAuthMethod(i)
  PROVE  Inv'
<1> DEFINE a == app[i]
<1>0. /\ a \in App /\ keychain \in Pass \cup {"none"} /\ UNCHANGED Screens
      /\ PlainApp(a) /\ Local(a, file, tmp) /\ a.at # "Off"
  BY DEF Types, TypeOK, Inv, SubmitInstance, SubmitPassphrase, ActivateAuthMethod, At
<1>1. CASE SubmitInstance(i)
  <2> DEFINE b == [a EXCEPT !.phase = "Setup"]
  <2>1. b \in App /\ b.phase = "Setup" /\ PlainApp(b)
    BY <1>0 DEF App, PlainApp
  <2>2. file.is = "none"
    BY <1>0, <1>1 DEF SubmitInstance, At, Local
  <2>3. Becomes(i, Manual(b, TRUE))
    BY <1>1 DEF SubmitInstance
  <2> HIDE DEF b
  <2> QED
    BY <1>0, <2>1, <2>2, <2>3, ManualLocal, ScreenInv
<1>2. CASE SubmitPassphrase(i)
  <2>1. PICK p \in Pass, s \in BOOLEAN :
          Becomes(i, [a EXCEPT !.at = "Deriving", !.input = p, !.save = s])
    BY <1>2 DEF SubmitPassphrase
  <2> DEFINE b == [a EXCEPT !.at = "Deriving", !.input = p, !.save = s]
  <2>2. /\ b \in App /\ b.at = "Deriving" /\ b.phase = a.phase /\ b.meta = a.meta
        /\ b.env = a.env /\ PlainApp(b)
    BY <1>0, ScreenNames DEF App, PlainApp
  <2>3. a.at \in {"Setup", "Unlock"}
    BY <1>2 DEF SubmitPassphrase
  <2> HIDE DEF b
  <2>4. Local(b, file, tmp)
    BY <1>0, <2>2, <2>3 DEF Local, Unlocked, Saving, Forms
  <2> QED
    BY <1>0, <2>1, <2>2, <2>4, ScreenInv DEF b
<1>3. CASE ActivateAuthMethod(i)
  <2>0. a.at = "AuthMethod" /\ a.phase = "Unlock" /\ file.is = "whole" /\ a.meta = file.meta
        /\ ~a.env
    BY <1>0, <1>3 DEF ActivateAuthMethod, At, Local
  <2>1. CASE \E s \in BOOLEAN : Becomes(i, Manual(a, s))
    BY <1>0, <2>0, <2>1, ManualLocal, ScreenInv
  <2>2. CASE keychain # "none" /\ Becomes(i, [a EXCEPT !.at = "Deriving", !.input = keychain])
    <3> DEFINE b == [a EXCEPT !.at = "Deriving", !.input = keychain]
    <3>1. /\ b \in App /\ b.at = "Deriving" /\ b.phase = a.phase /\ b.meta = a.meta
          /\ b.env = a.env /\ PlainApp(b)
      BY <1>0, <2>2, ScreenNames DEF App, PlainApp
    <3> HIDE DEF b
    <3>2. Local(b, file, tmp)
      BY <2>0, <3>1 DEF Local, Unlocked, Saving, Forms
    <3> QED
      BY <1>0, <2>2, <3>1, <3>2, ScreenInv DEF b
  <2> QED
    BY <1>3, <2>1, <2>2 DEF ActivateAuthMethod
<1> QED
  BY <1>1, <1>2, <1>3

----------------------------------------------------------------------------
(* Deriving the key. *)
LEMMA LoadPlain ==
  ASSUME TypeOK, FileInv, NEW a \in App, PlainApp(a)
  PROVE  LET b == Load(a) IN
         /\ PlainApp(b) /\ b.env = a.env /\ b.save = a.save /\ b.input = a.input
         /\ b.cipher = a.cipher /\ b.phase = a.phase
         /\ \/ b.at = "Home" /\ file.is = "none" /\ b.profiles = NoProfiles
            \/ b.at = "Error" /\ b.fatal
            \/ b.at = "Home" /\ (a.cipher = file.meta => Disk(b, file))
<1>1. /\ Opened(file, a.cipher) \in Profiles /\ NoProfiles \in Profiles
      /\ \A n \in Name : Opened(file, a.cipher)[n] \in PlainValue /\ NoProfiles[n] \in PlainValue
  <2>1. a.cipher \in AKey /\ file \in File
    BY DEF App, TypeOK
  <2>2. \A n \in Name : file.profiles[n] \in Value
    BY <2>1 DEF File, Profiles
  <2> QED
    BY <2>1, <2>2, FileTypes, DecryptPlain, PlainValues DEF Opened, NoProfiles, TypeOK
<1> DEFINE none == [a EXCEPT !.meta = NoKey, !.profiles = NoProfiles]
           some == [a EXCEPT !.meta = file.meta, !.profiles = Opened(file, a.cipher)]
<1>2. ASSUME NEW b \in App, b.secret = a.secret, b.old = a.old, b.env = a.env, b.save = a.save,
             b.input = a.input, b.cipher = a.cipher, b.phase = a.phase
      PROVE  LET h == EnterHome(b) IN
             /\ h.env = a.env /\ h.save = a.save /\ h.input = a.input
             /\ h.cipher = a.cipher /\ h.phase = a.phase /\ h.at = "Home"
             /\ h.secret = Empty /\ h.old = a.old /\ h.profiles = b.profiles /\ h.meta = b.meta
  BY <1>2 DEF EnterHome, App
<1>3. CASE file.is = "none"
  <2>1. none \in App /\ none.secret = a.secret /\ none.old = a.old /\ none.env = a.env
        /\ none.save = a.save /\ none.input = a.input /\ none.cipher = a.cipher
        /\ none.phase = a.phase /\ none.profiles = NoProfiles
    BY <1>1, Keys DEF App
  <2> HIDE DEF none
  <2>2. PlainApp(EnterHome(none))
    BY <1>1, <1>2, <2>1, PlainValues DEF PlainApp
  <2> QED
    BY <1>2, <1>3, <2>1, <2>2 DEF Load, none
<1>4. CASE file.is # "none" /\ Opens(file, a.cipher)
  <2>1. some \in App /\ some.secret = a.secret /\ some.old = a.old /\ some.env = a.env
        /\ some.save = a.save /\ some.input = a.input /\ some.cipher = a.cipher
        /\ some.phase = a.phase /\ some.profiles = Opened(file, a.cipher) /\ some.meta = file.meta
    BY <1>1 DEF App, TypeOK, File
  <2> HIDE DEF some
  <2>2. PlainApp(EnterHome(some))
    BY <1>1, <1>2, <2>1, PlainValues DEF PlainApp
  <2>3. a.cipher = file.meta => Disk(EnterHome(some), file)
    BY <1>2, <1>4, <2>1 DEF Disk, Opens
  <2> QED
    BY <1>2, <1>4, <2>1, <2>2, <2>3 DEF Load, some
<1>5. CASE file.is # "none" /\ ~Opens(file, a.cipher)
  <2>1. LET b == Fatal(a) IN
        /\ PlainApp(b) /\ b.env = a.env /\ b.save = a.save /\ b.input = a.input
        /\ b.cipher = a.cipher /\ b.phase = a.phase /\ b.at = "Error" /\ b.fatal
    BY DEF Fatal, App, PlainApp
  <2> QED
    BY <1>5, <2>1 DEF Load
<1> QED
  BY <1>3, <1>4, <1>5

LEMMA KeychainInv ==
  ASSUME Types, Inv, NEW i \in Instance, app[i].at # "Off", NEW a \in App, PlainApp(a),
         a.at \in {"Home", "Error"}, (a.at = "Error" /\ a.fatal) \/ Disk(a, file),
         SaveToKeychain(i, a), UNCHANGED <<file, tmp, holder, reader>>
  PROVE  Inv'
<1> DEFINE b == ClearScratch(a)
           c == ClearScratch(Fail(a))
<1>1. /\ b \in App /\ b.at = a.at /\ b.fatal = a.fatal /\ b.env = FALSE /\ PlainApp(b)
      /\ b.meta = a.meta /\ b.cipher = a.cipher /\ b.profiles = a.profiles
  BY DEF ClearScratch, App, PlainApp
<1>2. /\ c \in App /\ c.at = "Error" /\ c.fatal = a.fatal /\ c.env = FALSE /\ PlainApp(c)
      /\ c.meta = a.meta /\ c.cipher = a.cipher /\ c.profiles = a.profiles
  <2> DEFINE d == Fail(a)
  <2>1. /\ d \in App /\ d.at = "Error" /\ d.fatal = a.fatal /\ PlainApp(d)
        /\ d.meta = a.meta /\ d.cipher = a.cipher /\ d.profiles = a.profiles
    BY ScreenNames DEF Fail, App, PlainApp
  <2> HIDE DEF d
  <2>2. LET e == ClearScratch(d) IN
        /\ e \in App /\ e.at = d.at /\ e.fatal = d.fatal /\ e.env = FALSE /\ PlainApp(e)
        /\ e.meta = d.meta /\ e.cipher = d.cipher /\ e.profiles = d.profiles
    BY <2>1, ZenonT(40) DEF ClearScratch, App, PlainApp
  <2> QED
    BY <2>1, <2>2 DEF d
<1> HIDE DEF b, c
<1>3. Local(b, file, tmp)
  BY <1>1 DEF Local, Disk, Unlocked, Saving, Forms
<1>4. Local(c, file, tmp)
  BY <1>2 DEF Local, Disk, Unlocked, Saving, Forms
<1>5. Becomes(i, b) \/ Becomes(i, c)
  BY DEF SaveToKeychain, b, c
<1>6. holder' = i
  BY DEF Inv, Mine
<1>7. \A j \in Instance : Mine(j)' /\ PlainApp(app[j])' /\ Local(app[j], file, tmp)'
  BY <1>1, <1>2, <1>3, <1>4, <1>5, <1>6, Steps1
<1> QED
  BY <1>7 DEF Inv, FileInv, FileOpens, Opens, ReaderInv

LEMMA UnlockInv ==
  ASSUME Types, Inv, NEW i \in Instance, Unlock(i)
  PROVE  Inv'
<1> DEFINE a == app[i]
           wrong == [pass |-> a.input, salt |-> a.meta.salt] # a.meta
<1>0. /\ a \in App /\ PlainApp(a) /\ Local(a, file, tmp) /\ a.at = "Deriving"
      /\ a.phase = "Unlock" /\ file.is = "whole" /\ a.meta = file.meta
  BY DEF Types, TypeOK, Inv, Unlock, At, Local
<1>1. CASE wrong
  <2>1. UNCHANGED Screens /\ Becomes(i, Manual(a, a.save)) /\ a.save \in BOOLEAN
    BY <1>0, <1>1 DEF Unlock, Screens, App
  <2> QED
    BY <1>0, <2>1, ManualLocal, ScreenInv
<1>2. CASE ~wrong
  <2> DEFINE b == [a EXCEPT !.cipher = a.meta]
  <2>1. b \in App /\ PlainApp(b) /\ b.cipher = file.meta
    BY <1>0 DEF App, PlainApp
  <2>2. SaveToKeychain(i, Load(b)) /\ UNCHANGED <<file, tmp, holder, reader>>
    BY <1>2 DEF Unlock
  <2> HIDE DEF b
  <2>3. Load(b) \in App /\ Load(b).at \in {"Home", "Error"}
    BY <2>1, LoadTypes DEF Types
  <2>4. PlainApp(Load(b))
        /\ ((Load(b).at = "Error" /\ Load(b).fatal) \/ Disk(Load(b), file))
    BY <1>0, <2>1, LoadPlain DEF Types, Inv
  <2> QED
    BY <1>0, <2>2, <2>3, <2>4, KeychainInv
<1> QED
  BY <1>1, <1>2

LEMMA SetUpInv ==
  ASSUME Types, Inv, NEW i \in Instance, SetUp(i) \/ SetUpKeychain(i)
  PROVE  Inv'
<1> DEFINE a == app[i]
<1>0. a \in App /\ PlainApp(a) /\ Local(a, file, tmp) /\ Goes(a) /\ setups \in 0..MaxSetups
  BY DEF Types, TypeOK, Inv
<1>1. CASE SetUp(i)
  <2> DEFINE key == [pass |-> a.input, salt |-> setups + 1]
             b == [a EXCEPT !.cipher = key]
             l == Load(b)
             m == [l EXCEPT !.meta = key]
             c == [m EXCEPT !.at = "SaveOpen", !.then = "setup"]
  <2>1. a.at = "Deriving" /\ a.phase = "Setup" /\ file.is = "none" /\ ~a.env /\ a.input \in Pass
    BY <1>0, <1>1 DEF SetUp, At, Local, Goes
  <2>2. key \in AKey /\ key # NoKey /\ key.pass = a.input
    BY <1>0, <1>1, <2>1, Bounds DEF SetUp, AKey, Key, NoKey
  <2>3. Becomes(i, c) /\ UNCHANGED <<file, tmp, holder, reader>>
    BY <1>1 DEF SetUp, StartSave
  <2> HIDE DEF key
  <2>4. b \in App /\ PlainApp(b) /\ b.env = FALSE /\ b.input = a.input /\ b.cipher = key
    BY <1>0, <2>1, <2>2 DEF App, PlainApp
  <2> HIDE DEF b
  <2>5. l \in App
    BY <2>4, LoadTypes DEF Types
  <2>6. PlainApp(l) /\ l.env = FALSE /\ l.input = a.input /\ l.cipher = key
    BY <2>4, LoadPlain DEF Types, Inv
  <2>7. l.profiles = NoProfiles
    <3>1. LET e == [b EXCEPT !.meta = NoKey, !.profiles = NoProfiles]
          IN e \in App /\ e.profiles = NoProfiles
      BY <2>4, Keys, FileTypes DEF App, Types, TypeOK
    <3>2. l = EnterHome([b EXCEPT !.meta = NoKey, !.profiles = NoProfiles])
      BY <2>1 DEF Load
    <3> HIDE DEF l
    <3> QED
      BY <3>1, <3>2 DEF EnterHome, App
  <2> HIDE DEF l
  <2>8. /\ m \in App /\ PlainApp(m) /\ m.env = FALSE /\ m.input = a.input /\ m.cipher = key
        /\ m.meta = key /\ m.profiles = NoProfiles
    BY <2>2, <2>5, <2>6, <2>7 DEF App, PlainApp
  <2> HIDE DEF m
  <2>9. /\ c \in App /\ PlainApp(c) /\ c.env = FALSE /\ c.input = a.input /\ c.cipher = key
        /\ c.meta = key /\ c.profiles = NoProfiles /\ c.at = "SaveOpen" /\ c.then = "setup"
    BY <2>8, ScreenNames DEF App, PlainApp
  <2> HIDE DEF c
  <2>10. Local(c, file, tmp)
    BY <2>1, <2>2, <2>9 DEF Local, FirstSave, Unlocked, Saving, Forms
  <2>11. a.at # "Off" /\ holder' = i
    BY <2>1, <2>3 DEF Inv, Mine
  <2>12. Local(c, file', tmp') /\ c.at # "Off"
    BY <2>3, <2>9, <2>10
  <2>13. \A j \in Instance : Mine(j)' /\ PlainApp(app[j])' /\ Local(app[j], file, tmp)'
    BY <2>3, <2>9, <2>11, <2>12, Steps1
  <2> QED
    BY <2>3, <2>13 DEF Inv, FileInv, FileOpens, Opens, ReaderInv
<1>2. CASE SetUpKeychain(i)
  <2> DEFINE b == [a EXCEPT !.at = IF a.fatal THEN "Error" ELSE "Home"]
  <2>1. a.at = "Keychain" /\ (a.fatal \/ Disk(a, file))
    BY <1>0, <1>2 DEF SetUpKeychain, At, Local
  <2>2. /\ b \in App /\ PlainApp(b) /\ b.at = (IF a.fatal THEN "Error" ELSE "Home")
        /\ b.fatal = a.fatal /\ b.meta = a.meta /\ b.cipher = a.cipher /\ b.profiles = a.profiles
    BY <1>0, ScreenNames DEF App, PlainApp
  <2>3. SaveToKeychain(i, b) /\ UNCHANGED <<file, tmp, holder, reader>>
    BY <1>2 DEF SetUpKeychain
  <2> HIDE DEF b
  <2>4. b.at \in {"Home", "Error"} /\ ((b.at = "Error" /\ b.fatal) \/ Disk(b, file))
    BY <2>1, <2>2 DEF Disk
  <2> QED
    BY <2>1, <2>2, <2>3, <2>4, KeychainInv
<1> QED
  BY <1>1, <1>2

----------------------------------------------------------------------------
(* The save. *)
LEMMA SaveInv ==
  ASSUME Types, Inv, NEW i \in Instance,
         SaveOpen(i) \/ SaveWrite(i) \/ SaveRename(i) \/ SaveFails(i)
  PROVE  Inv'
<1> DEFINE a == app[i]
           o == Over(a)
<1>0. /\ a \in App /\ PlainApp(a) /\ Local(a, file, tmp) /\ a.at \in Saving /\ holder = i
      /\ FirstSave(a, file) \/ OtherSave(a, file)
      /\ ~a.env /\ a.at # "Off"
  BY DEF Types, TypeOK, Inv, Mine, SaveOpen, SaveWrite, SaveRename, SaveFails, At, Saving, Local
<1>1. /\ o \in App /\ PlainApp(o) /\ o.env = FALSE /\ o.input = a.input /\ o.cipher = a.cipher
      /\ o.meta = a.meta /\ o.profiles = a.profiles /\ o.fatal = a.fatal
  <2>1. Absent \in Value
    BY DEF Value
  <2> QED
    BY <1>0, <2>1, PlainValues DEF Over, App, PlainApp
<1> HIDE DEF o
<1>2. ASSUME NEW x \in {"SaveWrite", "SaveRename"}, Becomes(i, [a EXCEPT !.at = x]),
             x = "SaveRename" => tmp' = Image(a),
             UNCHANGED <<file, holder, keychain, setups, reader>>
      PROVE  Inv'
  <2> DEFINE b == [a EXCEPT !.at = x]
  <2>1. /\ b \in App /\ PlainApp(b) /\ b.env = FALSE /\ b.at = x /\ b.then = a.then
        /\ b.cipher = a.cipher /\ b.meta = a.meta /\ b.profiles = a.profiles
        /\ b.input = a.input /\ b.changed = a.changed /\ b.asked = a.asked /\ b.old = a.old
    BY <1>0, <1>2, ScreenNames DEF App, PlainApp
  <2> HIDE DEF b
  <2>2. FirstSave(b, file) \/ OtherSave(b, file)
    BY <1>0, <2>1 DEF FirstSave, OtherSave
  <2>3. Image(b) = Image(a)
    BY <2>1 DEF Image
  <2>4. Local(b, file, tmp')
    BY <1>2, <2>1, <2>2, <2>3 DEF Local, Unlocked, Saving, Forms
  <2>5. \A j \in Instance : Mine(j)' /\ PlainApp(app[j])' /\ Local(app[j], file, tmp)'
    BY <1>0, <1>2, <2>1, <2>4, Steps1 DEF b
  <2> QED
    BY <1>2, <2>5 DEF Inv, FileInv, FileOpens, Opens, ReaderInv
<1>3. CASE SaveOpen(i)
  BY <1>2, <1>3 DEF SaveOpen
<1>4. CASE SaveWrite(i)
  BY <1>2, <1>4 DEF SaveWrite
<1>5. CASE SaveRename(i)
  <2>1. /\ file' = Image(a) /\ tmp' = NoFile /\ Becomes(i, Saved(a))
        /\ UNCHANGED <<holder, keychain, setups, reader>>
    BY <1>0, <1>5 DEF SaveRename, At, Local
  <2>2. a.cipher = a.meta /\ a.meta # NoKey
    BY <1>0 DEF FirstSave, OtherSave, Inv, FileInv, FileOpens
  <2>3. FileInv'
    BY <1>0, <2>1, <2>2, ImageOpens DEF FileInv, FileOpens, Opens
  <2>4. ReaderInv'
    <3>1. file.is = "whole" => file'.is = "whole" /\ file'.meta = file.meta
      BY <1>0, <2>1, ImageOpens DEF FirstSave, OtherSave
    <3> QED
      BY <2>1, <3>1 DEF Inv, ReaderInv
  <2>5. Disk(o, Image(a))
    BY <1>0, <1>1, <2>2, ImageOpens DEF Disk
  <2>6. Saved(a) \in App /\ PlainApp(Saved(a)) /\ Local(Saved(a), Image(a), NoFile)
        /\ Saved(a).at # "Off"
    <3>1. CASE a.then = "setup"
      <4> DEFINE b == [o EXCEPT !.at = "Keychain"]
      <4>1. /\ b \in App /\ PlainApp(b) /\ b.at = "Keychain" /\ b.env = FALSE
            /\ b.input = a.input /\ b.cipher = a.cipher /\ b.meta = o.meta
            /\ b.profiles = o.profiles
        BY <1>1, ScreenNames DEF App, PlainApp
      <4>2. Saved(a) = b
        BY <3>1 DEF Saved, o
      <4> HIDE DEF b
      <4>3. b.cipher.pass = b.input /\ Disk(b, Image(a))
        BY <1>0, <1>1, <2>5, <3>1, <4>1 DEF FirstSave, OtherSave, Disk
      <4>4. Local(b, Image(a), NoFile)
        BY <4>1, <4>3 DEF Local, Unlocked, Saving, Forms
      <4> QED
        BY <4>1, <4>2, <4>4
    <3>2. CASE a.then # "setup"
      <4> DEFINE b == EnterHome(o)
      <4>1. /\ b \in App /\ b.at = "Home" /\ b.env = FALSE /\ b.secret = Empty /\ b.old = o.old
            /\ b.cipher = o.cipher /\ b.meta = o.meta /\ b.profiles = o.profiles
        BY <1>1, HomeTypes DEF EnterHome, App
      <4>2. Saved(a) = b
        BY <3>2 DEF Saved, o
      <4> HIDE DEF b
      <4>3. PlainApp(b) /\ Disk(b, Image(a))
        BY <1>1, <2>5, <4>1, PlainValues DEF PlainApp, Disk
      <4>4. Local(b, Image(a), NoFile)
        BY <4>1, <4>3 DEF Local, Unlocked, Saving, Forms
      <4> QED
        BY <4>1, <4>2, <4>3, <4>4
    <3> QED
      BY <3>1, <3>2
  <2>7. \A j \in Instance : Mine(j)' /\ PlainApp(app[j])' /\ Local(app[j], file, tmp)'
    BY <1>0, <2>1, <2>6, Steps1
  <2> QED
    BY <2>3, <2>4, <2>7 DEF Inv
<1>6. CASE SaveFails(i)
  <2>1. UNCHANGED Screens
    BY <1>6 DEF SaveFails
  <2>2. CASE a.then = "setup"
    <3> DEFINE b == [o EXCEPT !.at = "Keychain", !.fatal = TRUE]
    <3>1. /\ b \in App /\ PlainApp(b) /\ b.at = "Keychain" /\ b.env = FALSE /\ b.fatal = TRUE
          /\ b.input = a.input /\ b.cipher = a.cipher
      BY <1>1, ScreenNames DEF App, PlainApp
    <3>2. Becomes(i, b)
      BY <1>6, <2>2 DEF SaveFails, o
    <3> HIDE DEF b
    <3>3. Local(b, file, tmp)
      BY <1>0, <2>2, <3>1 DEF FirstSave, OtherSave, Local, Unlocked, Saving, Forms
    <3> QED
      BY <1>0, <2>1, <3>1, <3>2, <3>3, ScreenInv
  <2>3. CASE a.then # "setup"
    <3> DEFINE r == [a EXCEPT !.profiles[a.changed] = a.old]
               v == Over(r)
               b == Fail(v)
    <3>0. OtherSave(a, file) /\ a.changed \in Name
      BY <1>0, <2>3 DEF FirstSave, OtherSave
    <3>1. /\ r \in App /\ r.env = FALSE /\ r.cipher = a.cipher /\ r.meta = a.meta
          /\ r.secret = a.secret /\ r.profiles = Opened(file, a.cipher)
      BY <1>0, <3>0 DEF OtherSave, App, Profiles
    <3>2. \A n \in Name : r.profiles[n] \in PlainValue
      BY <1>0, <3>0 DEF PlainApp, App, Profiles
    <3>3. Becomes(i, b)
      BY <1>6, <2>3 DEF SaveFails, Restore
    <3> HIDE DEF r
    <3>4. /\ v \in App /\ v.env = FALSE /\ v.cipher = a.cipher /\ v.meta = a.meta
          /\ v.profiles = r.profiles /\ PlainApp(v)
      <4>1. Absent \in Value
        BY DEF Value
      <4> QED
        BY <1>0, <3>1, <3>2, <4>1, PlainValues, ZenonT(40) DEF Over, App, PlainApp
    <3> HIDE DEF v
    <3>5. /\ b \in App /\ b.at = "Error" /\ b.env = FALSE /\ b.cipher = a.cipher
          /\ b.meta = a.meta /\ b.profiles = r.profiles /\ PlainApp(b)
      BY <3>4, ScreenNames DEF Fail, App, PlainApp
    <3> HIDE DEF b
    <3>6. Disk(b, file)
      BY <3>0, <3>1, <3>5 DEF OtherSave, Disk
    <3>7. Local(b, file, tmp)
      BY <3>5, <3>6 DEF Local, Unlocked, Saving, Forms
    <3> QED
      BY <1>0, <2>1, <3>3, <3>5, <3>7, ScreenInv
  <2> QED
    BY <2>2, <2>3
<1> QED
  BY <1>3, <1>4, <1>5, <1>6

LEMMA EscapeInv ==
  ASSUME Types, Inv, NEW i \in Instance, Escape(i)
  PROVE  Inv'
<1> DEFINE a == app[i]
<1>0. a \in App /\ PlainApp(a) /\ Local(a, file, tmp) /\ UNCHANGED Screens
  BY DEF Types, TypeOK, Inv, Escape
<1>1. ASSUME Unlocked(a),
             NEW b \in App, Becomes(i, b), Kept(a, b), PlainApp(b), Unlocked(b),
             b.at \in Forms => b.name = b.asked, b.at # "ConfirmDelete"
      PROVE  Inv'
  <2>1. a.at # "Off"
    BY <1>1 DEF Unlocked
  <2> QED
    BY <1>0, <1>1, <2>1, Roams, ScreenInv
<1>2. CASE Becomes(i, EnterHome(a)) /\ Unlocked(a)
  <2>1. LET b == EnterHome(a)
        IN b \in App /\ b.at = "Home" /\ Kept(a, b) /\ PlainApp(b)
    BY <1>0, HomeTypes, PlainValues DEF EnterHome, App, Kept, PlainApp
  <2> QED
    BY <1>1, <1>2, <2>1 DEF Unlocked, Forms
<1>3. CASE Becomes(i, [a EXCEPT !.at = "Home", !.pending = 0, !.asked = 0]) /\ Unlocked(a)
  <2>1. LET b == [a EXCEPT !.at = "Home", !.pending = 0, !.asked = 0]
        IN b \in App /\ b.at = "Home" /\ Kept(a, b) /\ PlainApp(b)
    BY <1>0, ScreenNames DEF App, Kept, PlainApp
  <2> QED
    BY <1>1, <1>3, <2>1 DEF Unlocked, Forms
<1>4. CASE Becomes(i, [a EXCEPT !.at = "Name"]) /\ Unlocked(a)
  <2>1. LET b == [a EXCEPT !.at = "Name"]
        IN b \in App /\ b.at = "Name" /\ Kept(a, b) /\ PlainApp(b)
    BY <1>0, ScreenNames DEF App, Kept, PlainApp
  <2> QED
    BY <1>1, <1>4, <2>1 DEF Unlocked, Forms
<1>5. CASE Becomes(i, [a EXCEPT !.at = "Backend"]) /\ a.at = "Location"
  <2>1. a.name = a.asked /\ Unlocked(a)
    BY <1>0, <1>5 DEF Local, Forms, Unlocked
  <2>2. LET b == [a EXCEPT !.at = "Backend"]
        IN b \in App /\ b.at = "Backend" /\ b.name = b.asked /\ Kept(a, b) /\ PlainApp(b)
    BY <1>0, <2>1, ScreenNames DEF App, Kept, PlainApp
  <2> QED
    BY <1>1, <1>5, <2>1, <2>2 DEF Unlocked
<1>6. CASE Becomes(i, [a EXCEPT !.at = "Location", !.secret = Empty]) /\ a.at = "Password"
  <2>1. a.name = a.asked /\ Unlocked(a) /\ Empty \in Value
    BY <1>0, <1>6 DEF Local, Forms, Unlocked, Value
  <2>2. LET b == [a EXCEPT !.at = "Location", !.secret = Empty]
        IN b \in App /\ b.at = "Location" /\ b.name = b.asked /\ Kept(a, b) /\ PlainApp(b)
    BY <1>0, <2>1, ScreenNames, PlainValues DEF App, Kept, PlainApp
  <2> QED
    BY <1>1, <1>6, <2>1, <2>2 DEF Unlocked
<1>7. CASE Becomes(i, [a EXCEPT !.at = "InstancePrompt", !.input = "none"]) /\ a.at = "Setup"
  <2> DEFINE b == [a EXCEPT !.at = "InstancePrompt", !.input = "none"]
  <2>1. file.is = "none" /\ ~a.env
    BY <1>0, <1>7 DEF Local
  <2>2. b \in App /\ b.at = "InstancePrompt" /\ b.env = a.env /\ PlainApp(b)
    BY <1>0, ScreenNames DEF App, PlainApp
  <2> HIDE DEF b
  <2>3. Local(b, file, tmp)
    BY <2>1, <2>2 DEF Local, Unlocked, Saving, Forms
  <2> QED
    BY <1>0, <1>7, <2>2, <2>3, ScreenInv DEF b
<1> QED
  BY <1>2, <1>3, <1>4, <1>5, <1>6, <1>7 DEF Escape, Unlocked

----------------------------------------------------------------------------
(* The headless reader. *)
LEMMA ReaderStepInv ==
  ASSUME Types, Inv, ReaderPeek \/ ReaderUnlock \/ ReaderPrompt \/ ReaderLoad \/ ReaderAgain
  PROVE  Inv'
<1>0. /\ reader \in [at : {"Idle", "Peeked", "Prompt", "Load", "Done", "Refused", "Broken"},
                     meta : AKey, tries : 0..3]
      /\ ReaderInv /\ FileInv /\ file \in File
  BY DEF Types, TypeOK, Inv
<1>1. UNCHANGED <<file, tmp, holder, keychain, setups, app>>
  BY DEF ReaderPeek, ReaderUnlock, ReaderPrompt, ReaderLoad, ReaderAgain, Read, TryPassphrase
<1>2. /\ reader'.at \in {"Peeked", "Prompt", "Load"} => file.is = "whole" /\ reader'.meta = file.meta
      /\ reader'.at # "Broken"
  <2>1. CASE ReaderPeek
    <3>1. file.is # "partial" /\ file.is \in {"none", "partial", "whole"}
      BY <1>0 DEF FileInv, FileOpens, Opens, File
    <3> QED
      BY <1>0, <2>1, <3>1 DEF ReaderPeek, Read
  <2>2. CASE ReaderUnlock
    BY <1>0, <2>2 DEF ReaderUnlock, TryPassphrase, Read, ReaderInv
  <2>3. CASE ReaderPrompt
    <3>1. \/ reader' = [reader EXCEPT !.at = "Load"]
          \/ reader' = [reader EXCEPT !.tries = @ + 1,
                                      !.at = IF reader.tries = 2 THEN "Refused" ELSE @]
      BY <2>3, Zenon DEF ReaderPrompt, TryPassphrase, Read
    <3>2. reader'.meta = reader.meta /\ reader'.at \in {"Load", "Refused", "Prompt"}
          /\ reader.at = "Prompt"
      BY <1>0, <2>3, <3>1 DEF ReaderPrompt
    <3> QED
      BY <1>0, <3>2 DEF ReaderInv
  <2>4. CASE ReaderLoad
    <3>1. file.is = "whole" /\ reader.meta = file.meta /\ Opens(file, reader.meta)
      BY <1>0, <2>4 DEF ReaderLoad, ReaderInv, FileInv, FileOpens
    <3> QED
      BY <1>0, <2>4, <3>1 DEF ReaderLoad, Read
  <2>5. CASE ReaderAgain
    BY <1>0, <2>5 DEF ReaderAgain, Read, Idle
  <2> QED
    BY <2>1, <2>2, <2>3, <2>4, <2>5
<1>3. FileInv' /\ ReaderInv'
  BY <1>0, <1>1, <1>2 DEF FileInv, FileOpens, Opens, ReaderInv
<1>4. \A i \in Instance : Mine(i)' /\ PlainApp(app[i])' /\ Local(app[i], file, tmp)'
  BY <1>1, Unmoved
<1> QED
  BY <1>3, <1>4 DEF Inv

LEMMA InvStep == PlainTyped /\ Types /\ Inv /\ [Next]_vars => Inv'
<1> SUFFICES ASSUME PlainTyped, Types, Inv, [Next]_vars PROVE Inv'
  OBVIOUS
<1>1. ASSUME NEW i \in Instance, Step(i) PROVE Inv'
  BY <1>1, LaunchInv, ExitInv, PassphraseInv, UnlockInv, SetUpInv, SaveInv,
     FormInv, DeleteInv, EscapeInv DEF Step
<1>2. CASE ReaderPeek \/ ReaderUnlock \/ ReaderPrompt \/ ReaderLoad \/ ReaderAgain
  BY <1>2, ReaderStepInv
<1>3. CASE UNCHANGED vars
  <2>1. FileInv' /\ ReaderInv'
    BY <1>3 DEF vars, Inv, FileInv, FileOpens, Opens, ReaderInv
  <2> QED
    BY <1>3, <2>1, Unmoved DEF vars, Inv
<1> QED
  BY <1>1, <1>2, <1>3 DEF Next

LEMMA SpecInv ==
  ASSUME PlainTyped
  PROVE  Spec => [](Types /\ Inv)
<1>1. Init => Types /\ Inv
  BY InitTypes, InitInv
<1>2. Types /\ Inv /\ [Next]_vars => (Types /\ Inv)'
  BY TypesStep, InvStep
<1> QED
  BY <1>1, <1>2, PTL DEF Spec

----------------------------------------------------------------------------
(* Results. *)

\* However a save ends, config.toml opens with its own passphrase, and a headless
\* command never finds it broken (config.rs save and load, automation.rs).
THEOREM AlwaysOpens ==
  ASSUME PlainTyped
  PROVE  Spec => []ConfigOpens
<1>1. Types /\ Inv => ConfigOpens
  BY DEF Inv, FileInv, ReaderInv, ConfigOpens, ReadsWhole
<1> QED
  BY <1>1, SpecInv, PTL

\* Behind the unlock, memory and disk agree (the rollbacks of commit_profile and
\* of a deletion in app.rs).
THEOREM MemoryMatches ==
  ASSUME PlainTyped
  PROVE  Spec => []MemoryIsDisk
<1>1. Types /\ Inv => MemoryIsDisk
  BY DEF Inv, Local, Disk, MemoryIsDisk
<1> QED
  BY <1>1, SpecInv, PTL

LEMMA OnlyAskedStep ==
  ASSUME Types, Inv, [Next]_vars, file' # file
  PROVE  /\ holder # NoOne
         /\ \A n \in Name \ {app[holder].asked} :
              Opened(file', file'.meta)[n] = Opened(file, file.meta)[n]
<1>1. PICK i \in Instance : SaveRename(i)
  BY DEF Next, Step, vars, Launch, Exit, SubmitInstance, SubmitPassphrase, ActivateAuthMethod,
         Unlock, SetUp, SetUpKeychain, SaveOpen, SaveWrite, SaveFails, NewProfile, EnterName,
         EditProfile, NextForm, EnterSecret, Verify, VerifyFailedKey, AskDelete, ConfirmDelete,
         Escape, ReaderPeek, ReaderUnlock, ReaderPrompt, ReaderLoad, ReaderAgain, Screens, Read,
         TryPassphrase
<1> DEFINE a == app[i]
<1>2. /\ a \in App /\ PlainApp(a) /\ Local(a, file, tmp) /\ a.at = "SaveRename" /\ holder = i
      /\ file' = tmp
  BY <1>1 DEF Types, TypeOK, Inv, Mine, SaveRename, At
<1>3. file' = Image(a) /\ (FirstSave(a, file) \/ OtherSave(a, file)) /\ a.cipher = a.meta
  BY <1>2 DEF Local, Saving, FirstSave, OtherSave
<1>4. Opened(file', file'.meta) = a.profiles
  BY <1>2, <1>3, ImageOpens
<1>5. ASSUME NEW n \in Name, n # a.asked
      PROVE  a.profiles[n] = Opened(file, file.meta)[n]
  <2>1. CASE FirstSave(a, file)
    <3>1. file = NoFile /\ a.profiles = NoProfiles
      BY <2>1 DEF FirstSave, Inv, FileInv
    <3>2. file.profiles[n] = Absent /\ a.profiles[n] = Absent
      BY <3>1 DEF NoFile, NoProfiles
    <3> QED
      BY <3>2 DEF Opened, Decrypt
  <2>2. CASE OtherSave(a, file)
    <3>1. Opened(file, file.meta) = [a.profiles EXCEPT ![a.changed] = a.old]
      BY <1>3, <2>2 DEF OtherSave
    <3>2. n # a.changed
      BY <1>5, <2>2 DEF OtherSave
    <3> QED
      BY <1>2, <3>1, <3>2 DEF App, Profiles
  <2> QED
    BY <1>3, <2>1, <2>2
<1>6. holder # NoOne
  BY <1>2, ConfigConstants
<1> QED
  BY <1>2, <1>4, <1>5, <1>6

LEMMA KeychainStep ==
  ASSUME Types, Inv, [Next]_vars, keychain' # keychain
  PROVE  \E i \in Instance :
           /\ app[i].at \in {"Deriving", "Keychain"} /\ ~app[i].env
           /\ app[i].save /\ app[i].input = keychain'
           /\ \/ file.meta.pass = keychain' /\ Opens(file, file.meta)
              \/ SetUpUnsaved(i)
<1>1. PICK i \in Instance : Unlock(i) \/ SetUpKeychain(i)
  BY DEF Next, Step, vars, Launch, Exit, SubmitInstance, SubmitPassphrase, ActivateAuthMethod,
         SetUp, SaveOpen, SaveWrite, SaveRename, SaveFails, NewProfile, EnterName,
         EditProfile, NextForm, EnterSecret, Verify, VerifyFailedKey, AskDelete, ConfirmDelete,
         Escape, ReaderPeek, ReaderUnlock, ReaderPrompt, ReaderLoad, ReaderAgain, Screens, Read,
         TryPassphrase
<1> DEFINE a == app[i]
<1>2. a \in App /\ PlainApp(a) /\ Local(a, file, tmp) /\ app \in [Instance -> App]
  BY DEF Types, TypeOK, Inv
<1>3. ASSUME NEW l \in App, SaveToKeychain(i, l)
      PROVE  l.save /\ keychain' = l.input
  BY <1>3 DEF SaveToKeychain
<1>4. CASE Unlock(i)
  <2> DEFINE b == [a EXCEPT !.cipher = a.meta]
  <2>1. a.at = "Deriving" /\ [pass |-> a.input, salt |-> a.meta.salt] = a.meta
        /\ SaveToKeychain(i, Load(b))
    BY <1>4 DEF Unlock, At
  <2>2. b \in App /\ PlainApp(b) /\ b.cipher = a.meta /\ b.save = a.save /\ b.input = a.input
    BY <1>2 DEF App, PlainApp
  <2> HIDE DEF b
  <2>3. Load(b) \in App
    BY <2>2, LoadTypes DEF Types
  <2>4. Load(b).save = a.save /\ Load(b).input = a.input
    BY <2>2, LoadPlain DEF Types, Inv
  <2>5. a.save /\ keychain' = a.input
    BY <1>3, <2>1, <2>3, <2>4
  <2>6. a.meta.pass = a.input
    BY <2>1
  <2>7. file.is = "whole" /\ file.meta = a.meta /\ ~a.env
    BY <1>2, <1>4, <2>1, <2>5 DEF Unlock, Local
  <2>8. Opens(file, file.meta)
    BY <2>7 DEF Inv, FileInv, FileOpens
  <2> QED
    BY <2>1, <2>5, <2>6, <2>7, <2>8
<1>5. CASE SetUpKeychain(i)
  <2> DEFINE b == [a EXCEPT !.at = IF a.fatal THEN "Error" ELSE "Home"]
  <2>1. a.at = "Keychain" /\ SaveToKeychain(i, b)
    BY <1>5 DEF SetUpKeychain, At
  <2>2. b \in App /\ b.save = a.save /\ b.input = a.input /\ b.cipher = a.cipher
    BY <1>2, ScreenNames DEF App
  <2> HIDE DEF b
  <2>3. a.save /\ keychain' = a.input
    BY <1>3, <2>1, <2>2
  <2>4. ~a.env /\ a.cipher.pass = a.input /\ ((a.fatal /\ file.is = "none") \/ Disk(a, file))
    BY <1>2, <2>1 DEF Local
  <2>5. CASE Disk(a, file)
    <3>1. file.meta.pass = a.input /\ Opens(file, file.meta)
      BY <2>4, <2>5 DEF Disk, Inv, FileInv, FileOpens
    <3> QED
      BY <2>1, <2>3, <2>4, <3>1
  <2>6. CASE a.fatal /\ file.is = "none"
    BY <2>1, <2>3, <2>4, <2>6 DEF SetUpUnsaved, At
  <2> QED
    BY <2>4, <2>5, <2>6
<1> QED
  BY <1>1, <1>4, <1>5

\* A save changes the profile its user named and no other.  The keychain is given
\* the submitted passphrase, never one of the environment, and that passphrase
\* opens config.toml unless the save of the set-up has just failed
\* (commit_profile, the deletion and derive_passphrase_key in app.rs).
THEOREM ChangesAreAsked ==
  ASSUME PlainTyped
  PROVE  Spec => ChangesAsked
<1>1. Types /\ Inv /\ [Next]_vars =>
        [file' # file =>
           /\ holder # NoOne
           /\ \A n \in Name \ {app[holder].asked} :
                Opened(file', file'.meta)[n] = Opened(file, file.meta)[n]]_vars
  BY OnlyAskedStep
<1>2. Types /\ Inv /\ [Next]_vars =>
        [keychain' # keychain =>
           \E i \in Instance :
             /\ app[i].at \in {"Deriving", "Keychain"} /\ ~app[i].env
             /\ app[i].save /\ app[i].input = keychain'
             /\ \/ file.meta.pass = keychain' /\ Opens(file, file.meta)
                \/ SetUpUnsaved(i)]_vars
  BY KeychainStep
<1> QED
  BY <1>1, <1>2, SpecInv, PTL DEF Spec, ChangesAsked, OnlyAsked, KeychainChosen
=============================================================================
