--------------------------- MODULE SnapshotScreens ---------------------------
(***************************************************************************)
(* The screens of one repository in the TUI (src/app.rs, the main loop in  *)
(* src/main.rs): list, filter, delete, tag edit, unlock, compare, SMB      *)
(* share, with the scratch state each of them keeps in App.                *)
(*                                                                         *)
(* Keys act on the waiting screens; on the others the loop makes one call  *)
(* and moves on.  Only the loop and the keys write App, but the repository *)
(* also changes under it.  The cursor is left out: it can be moved to any  *)
(* visible row, so a key acts on any.  Options are sets of at most one     *)
(* element, or 0 for no snapshot.                                          *)
(***************************************************************************)
EXTENDS Naturals, FiniteSets

CONSTANTS
  Profiles,  \* profiles 1..Profiles, in the order of their names
  Tag,       \* the tags in use
  Backups,   \* snapshots at the start
  MaxId      \* bound: snapshots ever written

ASSUME ScreenConstants ==
  /\ Profiles \in Nat \ {0}
  /\ Backups \in Nat
  /\ MaxId \in Nat
  /\ Backups <= MaxId

VARIABLES
  screen,         \* App.screen
  msg,            \* the kind of the message on an error screen
  config,         \* the profiles in the configuration
  loading_index,  \* which of them is open
  active,         \* active_profile_name, or 0
  snapshots,      \* the rows of the list
  filter,         \* snapshot_filter
  delete,         \* delete_target, delete_info, delete_root_listing
  asked,          \* the snapshot of which a deletion was last confirmed
  tag_edit,       \* tag_edit_target, tag_edit_pending
  unlock_return,  \* where Unlocking goes back to
  smb,            \* smb_snapshot_id, smb_handle, smb_error
  compare,        \* compare_first_id, compare_second_id, compare_results
  browse,         \* browse_snapshot_id
  there,          \* the snapshots in the repositories
  home,           \* home[i]: the profile whose repository i was written to
  tags,           \* tags[i]: the tags i was written with
  last            \* the last snapshot written

view == <<screen, msg>>
conf == <<config, loading_index, active>>
list == <<snapshots, filter>>
repo == <<there, home, tags, last>>
vars == <<view, conf, list, delete, asked, tag_edit, unlock_return, smb,
          compare, browse, repo>>

Profile == 1..Profiles
Id == 1..MaxId
NoneOr(S) == S \cup {0}

DeleteScreens == {"SnapshotDeleteLoading", "SnapshotDeleteConfirm",
                  "SnapshotDeleting", "SnapshotDeleteError"}
TagScreens == {"SnapshotTagEdit", "SnapshotTagSaving", "SnapshotTagError"}
SmbScreens == {"SnapshotSmbStarting", "SnapshotSmb"}
CompareScreens == {"SnapshotCompareSecond", "SnapshotCompareLoading",
                   "SnapshotCompareResults"}
BrowseScreens == {"OpeningSnapshot", "SnapshotContents"}
OtherScreens == {"Home", "Loading", "Error", "Snapshots", "SnapshotFilterDim",
                 "SnapshotFilterValue", "Unlocking", "PruneConfirm",
                 "PruneRunning", "PruneDone", "PruneError"}
Screen == DeleteScreens \cup TagScreens \cup SmbScreens \cup CompareScreens
            \cup BrowseScreens \cup OtherScreens

\* The loop works on these without waiting for a key.
Busy == {"Loading", "SnapshotDeleteLoading", "SnapshotDeleting", "Unlocking",
         "SnapshotTagSaving", "SnapshotSmbStarting", "SnapshotCompareLoading",
         "OpeningSnapshot", "PruneRunning"}

\* "lost" is the message of a branch that finds the state its flow set up gone.
Message == {"none", "lock", "other", "lost"}

NoDelete == [target |-> 0, info |-> 0, listing |-> 0]
NoTagEdit == [target |-> 0, pending |-> {}]
NoHandle == [profile |-> 0, id |-> 0]
NoShare == [id |-> 0, handle |-> NoHandle, error |-> "none"]
NoCompare == [first |-> 0, second |-> 0, results |-> <<0, 0>>]

ViewType ==
  /\ screen \in Screen
  /\ msg \in Message
  /\ config \subseteq Profile
  /\ loading_index \in 0..Profiles - 1
  /\ active \in NoneOr(Profile)
  /\ unlock_return \in {"Delete", "Smb", "TagEdit"}

FlowType ==
  /\ delete \in [target : NoneOr(Id), info : NoneOr(Id), listing : NoneOr(Id)]
  /\ asked \in NoneOr(Id)
  /\ tag_edit \in [target : NoneOr(Id), pending : SUBSET SUBSET Tag]
  /\ smb \in [id : NoneOr(Id), error : Message,
              handle : [profile : NoneOr(Profile), id : NoneOr(Id)]]
  /\ compare \in [first : NoneOr(Id), second : NoneOr(Id),
                  results : NoneOr(Id) \X NoneOr(Id)]
  /\ browse \in NoneOr(Id)

RepoType ==
  /\ last \in Backups..MaxId
  /\ snapshots \subseteq 1..last
  /\ there \subseteq 1..last
  /\ filter \subseteq Tag
  /\ home \in [Id -> Profile]
  /\ tags \in [Id -> SUBSET Tag]

\* Types; and rows and files are snapshots somebody has written.
TypeOK == ViewType /\ FlowType /\ RepoType

Init ==
  /\ screen = "Home"
  /\ msg = "none"
  /\ config \in SUBSET Profile
  /\ loading_index = 0
  /\ active = 0
  /\ snapshots = {}
  /\ filter = {}
  /\ delete = NoDelete
  /\ asked = 0
  /\ tag_edit = NoTagEdit
  /\ unlock_return = "Delete"
  /\ smb = NoShare
  /\ compare = NoCompare
  /\ browse = 0
  /\ \E h \in [1..Backups -> Profile], ts \in [1..Backups -> SUBSET Tag] :
       /\ home = [i \in Id |-> IF i <= Backups THEN h[i] ELSE 1]
       /\ tags = [i \in Id |-> IF i <= Backups THEN ts[i] ELSE {}]
  /\ there = 1..Backups
  /\ last = Backups

----------------------------------------------------------------------------
Show(s) == screen' = s /\ msg' = "none"
Fail(s, m) == screen' = s /\ msg' = m

\* The profile at an index of the configuration, which keeps names in order.
ProfileAt(i) == {p \in config : Cardinality({q \in config : q < p}) = i}
Current == ProfileAt(loading_index)

\* Snapshot i can be read in the repository that is open.
Readable(i) == i \in there /\ Current = {home[i]}

\* visible_snapshot_indices
Visible == {i \in snapshots : filter \subseteq tags[i]}

----------------------------------------------------------------------------
(* Home, the list and its filter. *)

HomeKeeps == UNCHANGED <<delete, asked, tag_edit, unlock_return, smb, compare,
                         browse, repo>>

\* The screens that add, edit and remove profiles start and end at Home.
EditProfiles ==
  /\ screen = "Home"
  /\ config' \in SUBSET Profile
  /\ UNCHANGED <<view, loading_index, active, list>>
  /\ HomeKeeps

\* Mutant of Activate: the index counts from one.
ActivateFromOne ==
  /\ screen = "Home"
  /\ \E i \in 0..Profiles - 1 :
       /\ ProfileAt(i) # {}
       /\ loading_index' = i + 1
       /\ active' \in ProfileAt(i)
  /\ Show("Loading")
  /\ UNCHANGED <<config, list>>
  /\ HomeKeeps

\* activate_home_profile
Activate ==
  /\ screen = "Home"
  /\ \E i \in 0..Profiles - 1 :
       /\ ProfileAt(i) # {}
       /\ loading_index' = i
       /\ active' \in ProfileAt(i)
  /\ Show("Loading")
  /\ UNCHANGED <<config, list>>
  /\ HomeKeeps

Loaded ==
  /\ screen = "Loading"
  /\ Current # {}
  /\ snapshots' = {i \in there : Current = {home[i]}}
  /\ Show("Snapshots")
  /\ UNCHANGED <<conf, filter>>
  /\ HomeKeeps

\* Mutant of LoadingFails: the list is shown all the same.
LoadingIgnored ==
  /\ screen = "Loading"
  /\ Show("Snapshots")
  /\ UNCHANGED <<conf, list>>
  /\ HomeKeeps

LoadingFails ==
  /\ screen = "Loading"
  /\ Fail("Error", IF Current = {} THEN "lost" ELSE "other")
  /\ UNCHANGED <<conf, list>>
  /\ HomeKeeps

\* Any key on the error screen: enter_home.
LeaveError ==
  /\ screen = "Error"
  /\ active' = 0
  /\ Show("Home")
  /\ UNCHANGED <<config, loading_index, list>>
  /\ HomeKeeps

LeaveList ==
  /\ screen = "Snapshots"
  /\ snapshots' = {}
  /\ filter' = {}
  /\ active' = 0
  /\ Show("Home")
  /\ UNCHANGED <<config, loading_index>>
  /\ HomeKeeps

Reload ==
  /\ screen = "Snapshots"
  /\ snapshots' = {}
  /\ filter' = {}
  /\ Show("Loading")
  /\ UNCHANGED conf
  /\ HomeKeeps

\* From one screen to another, with nothing else.
Go(from, to) ==
  /\ screen \in from
  /\ Show(to)
  /\ UNCHANGED <<conf, list>>
  /\ HomeKeeps

OpenFilter == Go({"Snapshots"}, "SnapshotFilterDim")
PickKind ==
  /\ \E i \in snapshots : tags[i] # {}
  /\ Go({"SnapshotFilterDim"}, "SnapshotFilterValue")

SetFilter(f) ==
  /\ filter' = f
  /\ Show("Snapshots")
  /\ UNCHANGED <<conf, snapshots>>
  /\ HomeKeeps

ClearFilter == screen = "SnapshotFilterDim" /\ filter # {} /\ SetFilter({})
PickValue ==
  /\ screen = "SnapshotFilterValue"
  /\ \E i \in snapshots : \E t \in tags[i] : SetFilter({t})

----------------------------------------------------------------------------
(* Delete: details and preview, the question, the deletion. *)

DeleteKeeps == UNCHANGED <<conf, tag_edit, smb, compare, browse>>

AskDelete ==
  /\ screen = "Snapshots"
  /\ \E i \in Visible : delete' = [delete EXCEPT !.target = i]
  /\ Show("SnapshotDeleteLoading")
  /\ DeleteKeeps
  /\ UNCHANGED <<list, asked, unlock_return, repo>>

\* The details are read only when there are none.
Preview ==
  /\ screen = "SnapshotDeleteLoading"
  /\ delete.target # 0
  /\ Readable(delete.target)
  /\ delete' = [delete EXCEPT !.info = IF @ = 0 THEN delete.target ELSE @,
                              !.listing = delete.target]
  /\ Show("SnapshotDeleteConfirm")
  /\ DeleteKeeps
  /\ UNCHANGED <<list, asked, unlock_return, repo>>

PreviewFails ==
  /\ screen = "SnapshotDeleteLoading"
  /\ Fail("SnapshotDeleteError",
          IF delete.target = 0 \/ Current = {} THEN "lost" ELSE "other")
  /\ DeleteKeeps
  /\ UNCHANGED <<list, delete, asked, unlock_return, repo>>

LoadMore ==
  /\ screen = "SnapshotDeleteConfirm"
  /\ Show("SnapshotDeleteLoading")
  /\ DeleteKeeps
  /\ UNCHANGED <<list, delete, asked, unlock_return, repo>>

ConfirmDelete ==
  /\ screen = "SnapshotDeleteConfirm"
  /\ asked' = delete.target
  /\ Show("SnapshotDeleting")
  /\ DeleteKeeps
  /\ UNCHANGED <<list, delete, unlock_return, repo>>

Deleted ==
  /\ screen = "SnapshotDeleting"
  /\ delete.target # 0
  /\ Readable(delete.target)
  /\ there' = there \ {delete.target}
  /\ delete' = [delete EXCEPT !.target = 0]
  /\ asked' = 0
  /\ snapshots' = {}
  /\ Show("Loading")
  /\ DeleteKeeps
  /\ UNCHANGED <<filter, unlock_return, home, tags, last>>

\* A conflict of locks has no effect; a call that fails otherwise may have had.
\* The target is put back, unless there was no profile to delete from.
DeleteFails ==
  /\ screen = "SnapshotDeleting"
  /\ IF delete.target = 0 \/ Current = {}
     THEN /\ Fail("SnapshotDeleteError", "lost")
          /\ delete' = [delete EXCEPT !.target = 0]
          /\ UNCHANGED there
     ELSE /\ UNCHANGED delete
          /\ \/ Fail("SnapshotDeleteError", "lock") /\ UNCHANGED there
             \/ /\ Fail("SnapshotDeleteError", "other")
                /\ \/ UNCHANGED there
                   \/ Readable(delete.target) /\ there' = there \ {delete.target}
  /\ asked' = 0
  /\ DeleteKeeps
  /\ UNCHANGED <<list, unlock_return, home, tags, last>>

\* Mutant of CancelDelete: the scratch is left.
CancelKeepsScratch ==
  Go({"SnapshotDeleteConfirm", "SnapshotDeleteError"}, "Snapshots")

\* Mutant of CancelDelete: the error goes back to the preview.
CancelReloads ==
  Go({"SnapshotDeleteConfirm", "SnapshotDeleteError"}, "SnapshotDeleteLoading")

\* clear_delete_scratch, from the question and from the error.
CancelDelete ==
  /\ screen \in {"SnapshotDeleteConfirm", "SnapshotDeleteError"}
  /\ delete' = NoDelete
  /\ Show("Snapshots")
  /\ DeleteKeeps
  /\ UNCHANGED <<list, asked, unlock_return, repo>>

----------------------------------------------------------------------------
(* Tag editor. *)

TagKeeps == UNCHANGED <<conf, delete, asked, smb, compare, browse>>

EditTags ==
  /\ screen = "Snapshots"
  /\ \E i \in Visible : tag_edit' = [target |-> i, pending |-> {}]
  /\ Show("SnapshotTagEdit")
  /\ TagKeeps
  /\ UNCHANGED <<list, unlock_return, repo>>

EnterTags ==
  /\ screen = "SnapshotTagEdit"
  /\ \E ts \in SUBSET Tag : tag_edit' = [tag_edit EXCEPT !.pending = {ts}]
  /\ Show("SnapshotTagSaving")
  /\ TagKeeps
  /\ UNCHANGED <<list, unlock_return, repo>>

Savable == tag_edit.target # 0 /\ tag_edit.pending # {} /\ Current # {}
Unedited == tag_edit.pending = {tags[tag_edit.target]}

\* Retag: the old snapshot is taken away once the new one is written.
Rewrite(old) ==
  /\ last < MaxId
  /\ last' = last + 1
  /\ there' = old \cup {last + 1}
  /\ home' = [home EXCEPT ![last + 1] = home[tag_edit.target]]
  /\ \E ts \in tag_edit.pending : tags' = [tags EXCEPT ![last + 1] = ts]

TagsUnchanged ==
  /\ screen = "SnapshotTagSaving"
  /\ Savable
  /\ Readable(tag_edit.target)
  /\ Unedited
  /\ tag_edit' = NoTagEdit
  /\ Show("Snapshots")
  /\ TagKeeps
  /\ UNCHANGED <<list, unlock_return, repo>>

TagsSaved ==
  /\ screen = "SnapshotTagSaving"
  /\ Savable
  /\ Readable(tag_edit.target)
  /\ ~Unedited
  /\ Rewrite(there \ {tag_edit.target})
  /\ tag_edit' = NoTagEdit
  /\ snapshots' = {}
  /\ Show("Loading")
  /\ TagKeeps
  /\ UNCHANGED <<filter, unlock_return>>

\* Nothing written, the new file written, or all of it done.
SaveFailed ==
  \/ UNCHANGED repo
  \/ /\ Readable(tag_edit.target)
     /\ ~Unedited
     /\ Rewrite(there) \/ Rewrite(there \ {tag_edit.target})

TagsFail ==
  /\ screen = "SnapshotTagSaving"
  /\ IF Savable
     THEN \/ Fail("SnapshotTagError", "lock") /\ UNCHANGED repo
          \/ Fail("SnapshotTagError", "other") /\ SaveFailed
     ELSE Fail("SnapshotTagError", "lost") /\ UNCHANGED repo
  /\ TagKeeps
  /\ UNCHANGED <<list, tag_edit, unlock_return>>

CancelTags ==
  /\ screen \in {"SnapshotTagEdit", "SnapshotTagError"}
  /\ tag_edit' = NoTagEdit
  /\ Show("Snapshots")
  /\ TagKeeps
  /\ UNCHANGED <<list, unlock_return, repo>>

----------------------------------------------------------------------------
(* SMB share. *)

SmbKeeps == UNCHANGED <<conf, list, delete, asked, tag_edit, compare, browse, repo>>

ShareSnapshot ==
  /\ screen = "Snapshots"
  /\ \E i \in Visible : smb' = [smb EXCEPT !.id = i, !.error = "none"]
  /\ Show("SnapshotSmbStarting")
  /\ SmbKeeps
  /\ UNCHANGED unlock_return

\* start_smb_share
ShareStarts ==
  /\ screen = "SnapshotSmbStarting"
  /\ smb.handle = NoHandle
  /\ Readable(smb.id)
  /\ \E p \in Current :
       smb' = [smb EXCEPT !.handle = [profile |-> p, id |-> smb.id], !.error = "none"]
  /\ Show("SnapshotSmb")
  /\ SmbKeeps
  /\ UNCHANGED unlock_return

ShareFails ==
  /\ screen = "SnapshotSmbStarting"
  /\ IF smb.handle # NoHandle
     THEN UNCHANGED smb
     ELSE \E e \in IF smb.id = 0 \/ Current = {} THEN {"lost"} ELSE {"lock", "other"} :
            smb' = [smb EXCEPT !.error = e]
  /\ Show("SnapshotSmb")
  /\ SmbKeeps
  /\ UNCHANGED unlock_return

\* poll_smb_lock and poll_smb_logons stop the server.
ShareStopped ==
  /\ screen = "SnapshotSmb"
  /\ smb.handle # NoHandle
  /\ smb' = [smb EXCEPT !.handle = NoHandle, !.error = "other"]
  /\ SmbKeeps
  /\ UNCHANGED <<view, unlock_return>>

\* Mutant of StopShare: the screen is left, the server is not.
LeaveShare == Go({"SnapshotSmb"}, "Snapshots")

\* stop_smb_share
StopShare ==
  /\ screen = "SnapshotSmb"
  /\ smb' = NoShare
  /\ Show("Snapshots")
  /\ SmbKeeps
  /\ UNCHANGED unlock_return

----------------------------------------------------------------------------
(* Unlocking: `u` on a conflict of locks, then back to the flow it came from. *)

UnlockKeeps == UNCHANGED <<conf, delete, asked, tag_edit, compare, browse, repo>>

UnlockFor(flow) ==
  /\ unlock_return' = flow
  /\ Show("Unlocking")
  /\ UnlockKeeps
  /\ UNCHANGED <<list, smb>>

OfferUnlock ==
  \/ screen = "SnapshotDeleteError" /\ msg = "lock" /\ UnlockFor("Delete")
  \/ screen = "SnapshotTagError" /\ msg = "lock" /\ UnlockFor("TagEdit")
  \/ /\ screen = "SnapshotSmb" /\ smb.handle = NoHandle /\ smb.error = "lock"
     /\ UnlockFor("Smb")

UnlockReturnTo(s) ==
  /\ unlock_return' = "Delete"
  /\ Show(s)
  /\ UNCHANGED <<conf, list, asked, tag_edit, smb, compare, browse, repo>>

\* Mutant of Unlocked: a deletion is retried at once, like the other two.
UnlockedRetries ==
  /\ screen = "Unlocking"
  /\ Current # {}
  /\ UnlockReturnTo(IF unlock_return = "Smb" THEN "SnapshotSmbStarting"
                    ELSE IF unlock_return = "TagEdit" THEN "SnapshotTagSaving"
                    ELSE "SnapshotDeleting")
  /\ UNCHANGED delete

\* The deletion is asked for again, with its details read afresh.
Unlocked ==
  /\ screen = "Unlocking"
  /\ Current # {}
  /\ \/ /\ unlock_return = "Smb"
        /\ UnlockReturnTo("SnapshotSmbStarting")
        /\ UNCHANGED delete
     \/ /\ unlock_return = "TagEdit"
        /\ UnlockReturnTo("SnapshotTagSaving")
        /\ UNCHANGED delete
     \/ /\ unlock_return = "Delete"
        /\ delete' = [delete EXCEPT !.info = 0]
        /\ UnlockReturnTo(IF delete.target # 0 THEN "SnapshotDeleteLoading" ELSE "Loading")

UnlockFails ==
  /\ screen = "Unlocking"
  /\ unlock_return' = "Delete"
  /\ \E m \in IF Current = {} THEN {"lost"} ELSE {"other"} :
       \/ unlock_return = "Delete" /\ Fail("SnapshotDeleteError", m) /\ UNCHANGED smb
       \/ unlock_return = "TagEdit" /\ Fail("SnapshotTagError", m) /\ UNCHANGED smb
       \/ /\ unlock_return = "Smb"
          /\ Show("SnapshotSmb")
          /\ smb' = [smb EXCEPT !.error = m]
  /\ UnlockKeeps
  /\ UNCHANGED list

----------------------------------------------------------------------------
(* Compare. *)

CompareKeeps == UNCHANGED <<conf, list, delete, asked, tag_edit, unlock_return,
                            smb, browse, repo>>

CompareFirst ==
  /\ screen = "Snapshots"
  /\ Cardinality(Visible) >= 2
  /\ \E i \in Visible : compare' = [NoCompare EXCEPT !.first = i]
  /\ Show("SnapshotCompareSecond")
  /\ CompareKeeps

CompareSecond ==
  /\ screen = "SnapshotCompareSecond"
  /\ \E i \in Visible \ {compare.first} : compare' = [compare EXCEPT !.second = i]
  /\ Show("SnapshotCompareLoading")
  /\ CompareKeeps

Compared ==
  /\ screen = "SnapshotCompareLoading"
  /\ compare.first # 0 /\ compare.second # 0
  /\ Readable(compare.first) /\ Readable(compare.second)
  /\ compare' = [compare EXCEPT !.results = <<compare.first, compare.second>>]
  /\ Show("SnapshotCompareResults")
  /\ CompareKeeps

CompareFails ==
  /\ screen = "SnapshotCompareLoading"
  /\ compare' = NoCompare
  /\ Fail("Error", IF Current = {} \/ compare.first = 0 \/ compare.second = 0
                   THEN "lost" ELSE "other")
  /\ CompareKeeps

CancelCompare ==
  /\ screen \in {"SnapshotCompareSecond", "SnapshotCompareResults"}
  /\ compare' = NoCompare
  /\ Show("Snapshots")
  /\ CompareKeeps

----------------------------------------------------------------------------
(* Browsing, from here only how it is entered and left; prune. *)

BrowseKeeps == UNCHANGED <<conf, list, delete, asked, tag_edit, unlock_return,
                           smb, compare, repo>>

OpenSnapshot ==
  /\ screen = "Snapshots"
  /\ browse' \in Visible
  /\ Show("OpeningSnapshot")
  /\ BrowseKeeps

Opened ==
  /\ Readable(browse)
  /\ Go({"OpeningSnapshot"}, "SnapshotContents")

ReopenSnapshot == Go({"SnapshotContents"}, "OpeningSnapshot")

\* Opening fails, or a later read of a directory or a file does.
BrowseFails ==
  /\ screen \in BrowseScreens
  /\ Fail("Error", IF screen = "OpeningSnapshot" /\ Current = {} THEN "lost" ELSE "other")
  /\ UNCHANGED browse
  /\ BrowseKeeps

CloseSnapshot ==
  /\ screen = "SnapshotContents"
  /\ browse' = 0
  /\ Show("Snapshots")
  /\ BrowseKeeps

AskPrune == Go({"Snapshots"}, "PruneConfirm")
ConfirmPrune == Go({"PruneConfirm"}, "PruneRunning")
Pruned == Go({"PruneRunning"}, "PruneDone")
LeavePrune == Go({"PruneConfirm", "PruneDone", "PruneError"}, "Snapshots")

PruneFails ==
  /\ screen = "PruneRunning"
  /\ Fail("PruneError", IF Current = {} THEN "lost" ELSE "other")
  /\ UNCHANGED browse
  /\ BrowseKeeps

----------------------------------------------------------------------------
(* Other processes on the repositories. *)

RepoOnly == UNCHANGED <<view, conf, list, delete, asked, tag_edit, unlock_return,
                        smb, compare, browse>>

OtherBackup ==
  /\ last < MaxId
  /\ last' = last + 1
  /\ there' = there \cup {last + 1}
  /\ \E p \in Profile : home' = [home EXCEPT ![last + 1] = p]
  /\ \E ts \in SUBSET Tag : tags' = [tags EXCEPT ![last + 1] = ts]
  /\ RepoOnly

OtherForget ==
  /\ \E i \in there : there' = there \ {i}
  /\ UNCHANGED <<home, tags, last>>
  /\ RepoOnly

----------------------------------------------------------------------------
Loop ==
  \/ Loaded \/ LoadingFails
  \/ Preview \/ PreviewFails \/ Deleted \/ DeleteFails
  \/ TagsUnchanged \/ TagsSaved \/ TagsFail
  \/ ShareStarts \/ ShareFails \/ Unlocked \/ UnlockFails
  \/ Compared \/ CompareFails \/ Opened
  \/ (screen = "OpeningSnapshot" /\ BrowseFails)
  \/ Pruned \/ PruneFails

\* What Esc does on each screen that waits for a key.
Esc ==
  \/ LeaveList \/ LeaveError \/ CancelDelete \/ CancelTags \/ StopShare
  \/ CancelCompare \/ CloseSnapshot \/ LeavePrune
  \/ Go({"SnapshotFilterDim"}, "Snapshots")
  \/ Go({"SnapshotFilterValue"}, "SnapshotFilterDim")

OtherKey ==
  \/ EditProfiles \/ Activate \/ Reload
  \/ OpenFilter \/ PickKind \/ ClearFilter \/ PickValue
  \/ AskDelete \/ LoadMore \/ ConfirmDelete
  \/ EditTags \/ EnterTags \/ ShareSnapshot \/ OfferUnlock
  \/ CompareFirst \/ CompareSecond \/ OpenSnapshot \/ ReopenSnapshot
  \/ (screen = "SnapshotContents" /\ BrowseFails)
  \/ AskPrune \/ ConfirmPrune

Environment == ShareStopped \/ OtherBackup \/ OtherForget

Next == Loop \/ Esc \/ OtherKey \/ Environment

\* A call the loop makes returns.  Nobody has to press a key.
Spec == Init /\ [][Next]_vars /\ WF_vars(Loop)

\* A user who, whenever Esc would do something, presses some key.
EscSpec == Spec /\ WF_vars(Esc)

----------------------------------------------------------------------------
InUnlock(flow) == screen = "Unlocking" /\ unlock_return = flow

\* Every flow has its snapshot exactly while one of its screens is up, through
\* errors, unlocks and retries (clear_delete_scratch and its like): a retry never
\* finds its target gone, and no flow inherits another one's.
FlowHasTarget ==
  /\ delete.target # 0 <=> screen \in DeleteScreens \/ InUnlock("Delete")
  /\ tag_edit.target # 0 <=> screen \in TagScreens \/ InUnlock("TagEdit")
  /\ tag_edit.pending # {}
       <=> screen \in {"SnapshotTagSaving", "SnapshotTagError"} \/ InUnlock("TagEdit")
  /\ smb.id # 0 <=> screen \in SmbScreens \/ InUnlock("Smb")
  /\ compare.first # 0 <=> screen \in CompareScreens

\* The branches for a target, a pair of snapshots or a profile that vanished in
\* the middle of a flow ("No snapshot selected for deletion.", "Compare flow lost a
\* snapshot id mid-flight.", "Selected profile no longer exists.") are never taken.
NeverLost == msg # "lost" /\ smb.error # "lost"

\* So no flow loses what it is about.
FlowsHold == FlowHasTarget /\ NeverLost

\* A deletion starts only on a `y` given for this very snapshot after the last
\* attempt: also a retry after an unlock asks again.
ConfirmedFirst ==
  screen = "SnapshotDeleting" => asked # 0 /\ asked = delete.target

\* The contents shown with the question are those of the snapshot it names.
PreviewMatches ==
  screen = "SnapshotDeleteConfirm" => delete.listing = delete.target

\* So a deletion is of a snapshot whose contents were shown and confirmed.
AskedRight == ConfirmedFirst /\ PreviewMatches

ActedOn == ({delete.target, tag_edit.target, smb.id, compare.first, compare.second}
             \cup IF screen \in BrowseScreens THEN {browse} ELSE {}) \ {0}

\* What a flow works on is a snapshot of the profile that is open, whose name is
\* on screen, although lists and ids outlive errors and profiles come and go.
OwnRepository == \A i \in ActedOn : Current = {active} /\ home[i] = active

\* The server runs only while its screen shows it, and serves the snapshot and
\* the profile the screen names (stop_smb_share: "never a server running that the
\* UI is not showing").
ServerShown ==
  smb.handle # NoHandle
    => screen = "SnapshotSmb" /\ smb.handle = [profile |-> active, id |-> smb.id]

\* No call of the loop, and no chain of them, keeps the user out for ever.
WaitsEnd == screen \in Busy ~> screen \notin Busy

\* Whoever presses nothing but Esc gets back to the profiles, from any screen.
EscLeadsHome ==
  <>[][Loop \/ Esc \/ Environment]_vars => <>[](screen = "Home")

\* So the user always gets out.
WayOut == WaitsEnd /\ EscLeadsHome

\* The details shown with the question (host, paths, tags, JSON) are those of
\* the snapshot it names.
DetailsMatch ==
  screen = "SnapshotDeleteConfirm" => delete.info = delete.target
=============================================================================
