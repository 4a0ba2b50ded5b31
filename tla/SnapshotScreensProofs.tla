------------------------ MODULE SnapshotScreensProofs ------------------------
(* Proofs about SnapshotScreens, for any number of profiles, snapshots, tags. *)
EXTENDS SnapshotScreens, FiniteSetTheorems, TLAPS

\* An index of the configuration is that of one profile.
LEMMA OneProfile ==
  ASSUME config \subseteq Profile, NEW i, NEW p \in ProfileAt(i)
  PROVE  ProfileAt(i) = {p}
<1> DEFINE Before(x) == {q \in config : q < x}
<1>1. IsFiniteSet(config)
  <2>1. IsFiniteSet(Profile)
    BY FS_Interval, ScreenConstants, 1 \in Int, Profiles \in Int DEF Profile
  <2> QED
    BY <2>1, FS_Subset
<1>2. config \subseteq Nat
  BY ScreenConstants DEF Profile
<1>3. ASSUME NEW x \in ProfileAt(i), NEW y \in ProfileAt(i), x < y
      PROVE  FALSE
  <2>1. x \in config /\ y \in config /\ x \in Nat /\ y \in Nat
    BY <1>2 DEF ProfileAt
  <2>2. x \in Before(y) /\ x \notin Before(x)
    BY <1>3, <2>1
  <2>3. ASSUME NEW q \in Before(x) PROVE q \in Before(y)
    <3>1. q \in config /\ q \in Nat /\ q < x
      BY <1>2
    <3> QED
      BY <1>3, <2>1, <3>1
  <2>4. IsFiniteSet(Before(y)) /\ Before(x) \in SUBSET Before(y)
    BY <1>1, <2>3, FS_Subset
  <2>5. Cardinality(Before(x)) = Cardinality(Before(y))
    BY DEF ProfileAt
  <2>6. Before(x) = Before(y)
    BY <2>4, <2>5, FS_Subset
  <2> QED
    BY <2>2, <2>6
<1>4. ASSUME NEW x \in ProfileAt(i) PROVE x = p
  <2>1. x \in Nat /\ p \in Nat
    BY <1>2 DEF ProfileAt
  <2> QED
    BY <1>3, <2>1
<1> QED
  BY <1>4

LEMMA SameProfile == UNCHANGED conf => Current' = Current
  BY DEF conf, Current, ProfileAt

LEMMA Rows ==
  ASSUME TypeOK
  PROVE  /\ last \in Nat /\ last <= MaxId
         /\ 1..last \subseteq Id
         /\ Visible \subseteq 1..last
         /\ Visible \subseteq Id
<1>1. last \in Nat /\ last <= MaxId
  BY ScreenConstants DEF TypeOK, RepoType
<1>2. 1..last \subseteq Id
  BY <1>1, ScreenConstants DEF Id
<1>3. Visible \subseteq snapshots
  BY DEF Visible
<1> QED
  BY <1>1, <1>2, <1>3 DEF TypeOK, RepoType

\* What a retag writes is well formed.
LEMMA Rewritten ==
  ASSUME TypeOK, NEW old \in SUBSET there, Rewrite(old), tag_edit.target # 0
  PROVE  /\ last' \in Backups..MaxId /\ last' = last + 1
         /\ 1..last \subseteq 1..last'
         /\ there' \subseteq 1..last'
         /\ home' \in [Id -> Profile]
         /\ tags' \in [Id -> SUBSET Tag]
         /\ \A i \in 1..last : home'[i] = home[i] /\ tags'[i] = tags[i]
<1>1. last' = last + 1 /\ last' \in Backups..MaxId /\ last + 1 \in Id
  BY Rows, ScreenConstants DEF Rewrite, TypeOK, RepoType, Id
<1>2. 1..last \subseteq 1..last' /\ last + 1 \in 1..last' /\ 1..last \subseteq Id
  BY <1>1, Rows, ScreenConstants
<1>3. there' \subseteq 1..last'
  BY <1>2 DEF Rewrite, TypeOK, RepoType
<1>4. tag_edit.target \in Id /\ tag_edit.pending \in SUBSET SUBSET Tag
  BY DEF TypeOK, FlowType, NoneOr
<1>5. PICK ts \in tag_edit.pending : tags' = [tags EXCEPT ![last + 1] = ts]
  BY DEF Rewrite
<1>6. ts \in SUBSET Tag
  BY <1>4, <1>5
<1>7. tags' \in [Id -> SUBSET Tag]
  BY <1>5, <1>6 DEF TypeOK, RepoType
<1>8. home' \in [Id -> Profile]
  BY <1>4 DEF Rewrite, TypeOK, RepoType
<1>9. \A i \in 1..last : i \in Id /\ i # last + 1
  BY <1>2, Rows
<1>10. \A i \in 1..last : home'[i] = home[i] /\ tags'[i] = tags[i]
  BY <1>5, <1>9 DEF Rewrite, TypeOK, RepoType
<1> QED
  BY <1>1, <1>2, <1>3, <1>7, <1>8, <1>10

----------------------------------------------------------------------------
LEMMA InitType == Init => TypeOK
<1>1. ASSUME Init PROVE TypeOK
  <2>1. home \in [Id -> Profile] /\ tags \in [Id -> SUBSET Tag]
    BY <1>1, ScreenConstants DEF Init, Id, Profile
  <2> QED
    BY <1>1, <2>1, ScreenConstants DEF Init, TypeOK, ViewType, FlowType,
      RepoType, NoDelete, NoTagEdit, NoShare, NoHandle, NoCompare, NoneOr,
      Message, Screen, OtherScreens
<1> QED
  BY <1>1

LEMMA ViewStep == TypeOK /\ [Next]_vars => ViewType'
<1> USE DEF view, conf, list, repo, Show, Fail, TypeOK, ViewType, DeleteScreens,
  TagScreens, SmbScreens, CompareScreens, BrowseScreens, OtherScreens, Screen, Busy,
  NoneOr, Message
<1>1. ASSUME TypeOK, EditProfiles PROVE ViewType'
  BY <1>1 DEF EditProfiles, HomeKeeps
<1>2. ASSUME TypeOK, Activate PROVE ViewType'
  <2>1. \A i : ProfileAt(i) \subseteq config
    BY DEF ProfileAt
  <2> QED
    BY <1>2, <2>1 DEF Activate, HomeKeeps
<1>3. ASSUME TypeOK, Loaded PROVE ViewType'
  BY <1>3 DEF Loaded, HomeKeeps
<1>4. ASSUME TypeOK, LoadingFails PROVE ViewType'
  BY <1>4 DEF LoadingFails, HomeKeeps
<1>5. ASSUME TypeOK, LeaveError PROVE ViewType'
  BY <1>5 DEF LeaveError, HomeKeeps
<1>6. ASSUME TypeOK, LeaveList PROVE ViewType'
  BY <1>6 DEF LeaveList, HomeKeeps
<1>7. ASSUME TypeOK, Reload PROVE ViewType'
  BY <1>7 DEF Reload, HomeKeeps
<1>8. ASSUME TypeOK, OpenFilter PROVE ViewType'
  BY <1>8 DEF OpenFilter, Go, HomeKeeps
<1>9. ASSUME TypeOK, PickKind PROVE ViewType'
  BY <1>9 DEF PickKind, Go, HomeKeeps
<1>10. ASSUME TypeOK, ClearFilter PROVE ViewType'
  BY <1>10 DEF ClearFilter, SetFilter, HomeKeeps
<1>11. ASSUME TypeOK, PickValue PROVE ViewType'
  BY <1>11 DEF PickValue, SetFilter, HomeKeeps
<1>12. ASSUME TypeOK, AskDelete PROVE ViewType'
  BY <1>12 DEF AskDelete, DeleteKeeps
<1>13. ASSUME TypeOK, Preview PROVE ViewType'
  BY <1>13 DEF Preview, DeleteKeeps
<1>14. ASSUME TypeOK, PreviewFails PROVE ViewType'
  BY <1>14 DEF PreviewFails, DeleteKeeps
<1>15. ASSUME TypeOK, LoadMore PROVE ViewType'
  BY <1>15 DEF LoadMore, DeleteKeeps
<1>16. ASSUME TypeOK, ConfirmDelete PROVE ViewType'
  BY <1>16 DEF ConfirmDelete, DeleteKeeps
<1>17. ASSUME TypeOK, Deleted PROVE ViewType'
  BY <1>17 DEF Deleted, DeleteKeeps
<1>18. ASSUME TypeOK, DeleteFails PROVE ViewType'
  BY <1>18 DEF DeleteFails, DeleteKeeps
<1>19. ASSUME TypeOK, CancelDelete PROVE ViewType'
  BY <1>19 DEF CancelDelete, DeleteKeeps
<1>20. ASSUME TypeOK, EditTags PROVE ViewType'
  BY <1>20 DEF EditTags, TagKeeps
<1>21. ASSUME TypeOK, EnterTags PROVE ViewType'
  BY <1>21 DEF EnterTags, TagKeeps
<1>22. ASSUME TypeOK, TagsUnchanged PROVE ViewType'
  BY <1>22 DEF TagsUnchanged, TagKeeps
<1>23. ASSUME TypeOK, TagsSaved PROVE ViewType'
  BY <1>23 DEF TagsSaved, TagKeeps, Rewrite
<1>24. ASSUME TypeOK, TagsFail PROVE ViewType'
  BY <1>24 DEF TagsFail, TagKeeps, SaveFailed, Rewrite
<1>25. ASSUME TypeOK, CancelTags PROVE ViewType'
  BY <1>25 DEF CancelTags, TagKeeps
<1>26. ASSUME TypeOK, ShareSnapshot PROVE ViewType'
  BY <1>26 DEF ShareSnapshot, SmbKeeps
<1>27. ASSUME TypeOK, ShareStarts PROVE ViewType'
  BY <1>27 DEF ShareStarts, SmbKeeps
<1>28. ASSUME TypeOK, ShareFails PROVE ViewType'
  BY <1>28 DEF ShareFails, SmbKeeps
<1>29. ASSUME TypeOK, ShareStopped PROVE ViewType'
  BY <1>29 DEF ShareStopped, SmbKeeps
<1>30. ASSUME TypeOK, StopShare PROVE ViewType'
  BY <1>30 DEF StopShare, SmbKeeps
<1>31. ASSUME TypeOK, OfferUnlock PROVE ViewType'
  BY <1>31 DEF OfferUnlock, UnlockFor, UnlockKeeps
<1>32. ASSUME TypeOK, Unlocked PROVE ViewType'
  BY <1>32 DEF Unlocked, UnlockReturnTo
<1>33. ASSUME TypeOK, UnlockFails PROVE ViewType'
  BY <1>33 DEF UnlockFails, UnlockKeeps
<1>34. ASSUME TypeOK, CompareFirst PROVE ViewType'
  BY <1>34 DEF CompareFirst, CompareKeeps
<1>35. ASSUME TypeOK, CompareSecond PROVE ViewType'
  BY <1>35 DEF CompareSecond, CompareKeeps
<1>36. ASSUME TypeOK, Compared PROVE ViewType'
  BY <1>36 DEF Compared, CompareKeeps
<1>37. ASSUME TypeOK, CompareFails PROVE ViewType'
  BY <1>37 DEF CompareFails, CompareKeeps
<1>38. ASSUME TypeOK, CancelCompare PROVE ViewType'
  BY <1>38 DEF CancelCompare, CompareKeeps
<1>39. ASSUME TypeOK, OpenSnapshot PROVE ViewType'
  BY <1>39 DEF OpenSnapshot, BrowseKeeps
<1>40. ASSUME TypeOK, Opened PROVE ViewType'
  BY <1>40 DEF Opened, Go, HomeKeeps
<1>41. ASSUME TypeOK, ReopenSnapshot PROVE ViewType'
  BY <1>41 DEF ReopenSnapshot, Go, HomeKeeps
<1>42. ASSUME TypeOK, BrowseFails PROVE ViewType'
  BY <1>42 DEF BrowseFails, BrowseKeeps
<1>43. ASSUME TypeOK, CloseSnapshot PROVE ViewType'
  BY <1>43 DEF CloseSnapshot, BrowseKeeps
<1>44. ASSUME TypeOK, AskPrune PROVE ViewType'
  BY <1>44 DEF AskPrune, Go, HomeKeeps
<1>45. ASSUME TypeOK, ConfirmPrune PROVE ViewType'
  BY <1>45 DEF ConfirmPrune, Go, HomeKeeps
<1>46. ASSUME TypeOK, Pruned PROVE ViewType'
  BY <1>46 DEF Pruned, Go, HomeKeeps
<1>47. ASSUME TypeOK, LeavePrune PROVE ViewType'
  BY <1>47 DEF LeavePrune, Go, HomeKeeps
<1>48. ASSUME TypeOK, PruneFails PROVE ViewType'
  BY <1>48 DEF PruneFails, BrowseKeeps
<1>49. ASSUME TypeOK, OtherBackup PROVE ViewType'
  BY <1>49 DEF OtherBackup, RepoOnly
<1>50. ASSUME TypeOK, OtherForget PROVE ViewType'
  BY <1>50 DEF OtherForget, RepoOnly
<1>51. ASSUME TypeOK, Go({"SnapshotFilterDim"}, "Snapshots") PROVE ViewType'
  BY <1>51 DEF Go, HomeKeeps
<1>52. ASSUME TypeOK, Go({"SnapshotFilterValue"}, "SnapshotFilterDim") PROVE ViewType'
  BY <1>52 DEF Go, HomeKeeps
<1>53. ASSUME TypeOK, UNCHANGED vars PROVE ViewType'
  BY <1>53 DEF vars
<1> QED
  BY <1>1, <1>2, <1>3, <1>4, <1>5, <1>6, <1>7, <1>8, <1>9, <1>10, <1>11, <1>12, <1>13,
    <1>14, <1>15, <1>16, <1>17, <1>18, <1>19, <1>20, <1>21, <1>22, <1>23, <1>24,
    <1>25, <1>26, <1>27, <1>28, <1>29, <1>30, <1>31, <1>32, <1>33, <1>34, <1>35,
    <1>36, <1>37, <1>38, <1>39, <1>40, <1>41, <1>42, <1>43, <1>44, <1>45, <1>46,
    <1>47, <1>48, <1>49, <1>50, <1>51, <1>52, <1>53 DEF Next, Loop, Esc, OtherKey,
    Environment

LEMMA FlowStep == TypeOK /\ [Next]_vars => FlowType'
<1> USE DEF view, conf, list, repo, Show, Fail, TypeOK, FlowType, NoneOr, Message,
  NoDelete, NoTagEdit, NoShare, NoHandle, NoCompare
<1>1. ASSUME TypeOK, EditProfiles PROVE FlowType'
  BY <1>1 DEF EditProfiles, HomeKeeps
<1>2. ASSUME TypeOK, Activate PROVE FlowType'
  BY <1>2 DEF Activate, HomeKeeps
<1>3. ASSUME TypeOK, Loaded PROVE FlowType'
  BY <1>3 DEF Loaded, HomeKeeps
<1>4. ASSUME TypeOK, LoadingFails PROVE FlowType'
  BY <1>4 DEF LoadingFails, HomeKeeps
<1>5. ASSUME TypeOK, LeaveError PROVE FlowType'
  BY <1>5 DEF LeaveError, HomeKeeps
<1>6. ASSUME TypeOK, LeaveList PROVE FlowType'
  BY <1>6 DEF LeaveList, HomeKeeps
<1>7. ASSUME TypeOK, Reload PROVE FlowType'
  BY <1>7 DEF Reload, HomeKeeps
<1>8. ASSUME TypeOK, OpenFilter PROVE FlowType'
  BY <1>8 DEF OpenFilter, Go, HomeKeeps
<1>9. ASSUME TypeOK, PickKind PROVE FlowType'
  BY <1>9 DEF PickKind, Go, HomeKeeps
<1>10. ASSUME TypeOK, ClearFilter PROVE FlowType'
  BY <1>10 DEF ClearFilter, SetFilter, HomeKeeps
<1>11. ASSUME TypeOK, PickValue PROVE FlowType'
  BY <1>11 DEF PickValue, SetFilter, HomeKeeps
<1>12. ASSUME TypeOK, AskDelete PROVE FlowType'
  BY <1>12, Rows DEF AskDelete, DeleteKeeps
<1>13. ASSUME TypeOK, Preview PROVE FlowType'
  BY <1>13 DEF Preview, DeleteKeeps
<1>14. ASSUME TypeOK, PreviewFails PROVE FlowType'
  BY <1>14 DEF PreviewFails, DeleteKeeps
<1>15. ASSUME TypeOK, LoadMore PROVE FlowType'
  BY <1>15 DEF LoadMore, DeleteKeeps
<1>16. ASSUME TypeOK, ConfirmDelete PROVE FlowType'
  BY <1>16 DEF ConfirmDelete, DeleteKeeps
<1>17. ASSUME TypeOK, Deleted PROVE FlowType'
  BY <1>17 DEF Deleted, DeleteKeeps
<1>18. ASSUME TypeOK, DeleteFails PROVE FlowType'
  BY <1>18 DEF DeleteFails, DeleteKeeps
<1>19. ASSUME TypeOK, CancelDelete PROVE FlowType'
  BY <1>19 DEF CancelDelete, DeleteKeeps
<1>20. ASSUME TypeOK, EditTags PROVE FlowType'
  BY <1>20, Rows DEF EditTags, TagKeeps
<1>21. ASSUME TypeOK, EnterTags PROVE FlowType'
  <2>1. PICK ts \in SUBSET Tag : tag_edit' = [tag_edit EXCEPT !.pending = {ts}]
    BY <1>21 DEF EnterTags
  <2>2. {ts} \in SUBSET SUBSET Tag
    OBVIOUS
  <2> QED
    BY <1>21, <2>1, <2>2 DEF EnterTags, TagKeeps
<1>22. ASSUME TypeOK, TagsUnchanged PROVE FlowType'
  BY <1>22 DEF TagsUnchanged, TagKeeps
<1>23. ASSUME TypeOK, TagsSaved PROVE FlowType'
  BY <1>23 DEF TagsSaved, TagKeeps, Rewrite
<1>24. ASSUME TypeOK, TagsFail PROVE FlowType'
  BY <1>24 DEF TagsFail, TagKeeps, SaveFailed, Rewrite
<1>25. ASSUME TypeOK, CancelTags PROVE FlowType'
  BY <1>25 DEF CancelTags, TagKeeps
<1>26. ASSUME TypeOK, ShareSnapshot PROVE FlowType'
  BY <1>26, Rows DEF ShareSnapshot, SmbKeeps
<1>27. ASSUME TypeOK, ShareStarts PROVE FlowType'
  <2>1. PICK p \in Current :
          smb' = [smb EXCEPT !.handle = [profile |-> p, id |-> smb.id], !.error = "none"]
    BY <1>27 DEF ShareStarts
  <2>2. p \in Profile
    BY <1>27, <2>1 DEF Current, ProfileAt, ViewType
  <2> QED
    BY <1>27, <2>1, <2>2 DEF ShareStarts, SmbKeeps
<1>28. ASSUME TypeOK, ShareFails PROVE FlowType'
  <2>1. \/ UNCHANGED smb
        \/ \E e \in Message : smb' = [smb EXCEPT !.error = e]
    BY <1>28 DEF ShareFails
  <2> QED
    BY <1>28, <2>1 DEF ShareFails, SmbKeeps
<1>29. ASSUME TypeOK, ShareStopped PROVE FlowType'
  BY <1>29 DEF ShareStopped, SmbKeeps
<1>30. ASSUME TypeOK, StopShare PROVE FlowType'
  BY <1>30 DEF StopShare, SmbKeeps
<1>31. ASSUME TypeOK, OfferUnlock PROVE FlowType'
  BY <1>31 DEF OfferUnlock, UnlockFor, UnlockKeeps
<1>32. ASSUME TypeOK, Unlocked PROVE FlowType'
  BY <1>32 DEF Unlocked, UnlockReturnTo
<1>33. ASSUME TypeOK, UnlockFails PROVE FlowType'
  BY <1>33 DEF UnlockFails, UnlockKeeps
<1>34. ASSUME TypeOK, CompareFirst PROVE FlowType'
  BY <1>34, Rows DEF CompareFirst, CompareKeeps
<1>35. ASSUME TypeOK, CompareSecond PROVE FlowType'
  BY <1>35, Rows DEF CompareSecond, CompareKeeps
<1>36. ASSUME TypeOK, Compared PROVE FlowType'
  BY <1>36 DEF Compared, CompareKeeps
<1>37. ASSUME TypeOK, CompareFails PROVE FlowType'
  BY <1>37 DEF CompareFails, CompareKeeps
<1>38. ASSUME TypeOK, CancelCompare PROVE FlowType'
  BY <1>38 DEF CancelCompare, CompareKeeps
<1>39. ASSUME TypeOK, OpenSnapshot PROVE FlowType'
  BY <1>39, Rows DEF OpenSnapshot, BrowseKeeps
<1>40. ASSUME TypeOK, Opened PROVE FlowType'
  BY <1>40 DEF Opened, Go, HomeKeeps
<1>41. ASSUME TypeOK, ReopenSnapshot PROVE FlowType'
  BY <1>41 DEF ReopenSnapshot, Go, HomeKeeps
<1>42. ASSUME TypeOK, BrowseFails PROVE FlowType'
  BY <1>42 DEF BrowseFails, BrowseKeeps
<1>43. ASSUME TypeOK, CloseSnapshot PROVE FlowType'
  BY <1>43 DEF CloseSnapshot, BrowseKeeps
<1>44. ASSUME TypeOK, AskPrune PROVE FlowType'
  BY <1>44 DEF AskPrune, Go, HomeKeeps
<1>45. ASSUME TypeOK, ConfirmPrune PROVE FlowType'
  BY <1>45 DEF ConfirmPrune, Go, HomeKeeps
<1>46. ASSUME TypeOK, Pruned PROVE FlowType'
  BY <1>46 DEF Pruned, Go, HomeKeeps
<1>47. ASSUME TypeOK, LeavePrune PROVE FlowType'
  BY <1>47 DEF LeavePrune, Go, HomeKeeps
<1>48. ASSUME TypeOK, PruneFails PROVE FlowType'
  BY <1>48 DEF PruneFails, BrowseKeeps
<1>49. ASSUME TypeOK, OtherBackup PROVE FlowType'
  BY <1>49 DEF OtherBackup, RepoOnly
<1>50. ASSUME TypeOK, OtherForget PROVE FlowType'
  BY <1>50 DEF OtherForget, RepoOnly
<1>51. ASSUME TypeOK, Go({"SnapshotFilterDim"}, "Snapshots") PROVE FlowType'
  BY <1>51 DEF Go, HomeKeeps
<1>52. ASSUME TypeOK, Go({"SnapshotFilterValue"}, "SnapshotFilterDim") PROVE FlowType'
  BY <1>52 DEF Go, HomeKeeps
<1>53. ASSUME TypeOK, UNCHANGED vars PROVE FlowType'
  BY <1>53 DEF vars
<1> QED
  BY <1>1, <1>2, <1>3, <1>4, <1>5, <1>6, <1>7, <1>8, <1>9, <1>10, <1>11, <1>12, <1>13,
    <1>14, <1>15, <1>16, <1>17, <1>18, <1>19, <1>20, <1>21, <1>22, <1>23, <1>24,
    <1>25, <1>26, <1>27, <1>28, <1>29, <1>30, <1>31, <1>32, <1>33, <1>34, <1>35,
    <1>36, <1>37, <1>38, <1>39, <1>40, <1>41, <1>42, <1>43, <1>44, <1>45, <1>46,
    <1>47, <1>48, <1>49, <1>50, <1>51, <1>52, <1>53 DEF Next, Loop, Esc, OtherKey,
    Environment

LEMMA RepoStep == TypeOK /\ [Next]_vars => RepoType'
<1> USE DEF view, conf, list, repo, Show, Fail, TypeOK, RepoType
<1>1. ASSUME TypeOK, EditProfiles PROVE RepoType'
  BY <1>1, ScreenConstants DEF EditProfiles, HomeKeeps
<1>2. ASSUME TypeOK, Activate PROVE RepoType'
  BY <1>2, ScreenConstants DEF Activate, HomeKeeps
<1>3. ASSUME TypeOK, Loaded PROVE RepoType'
  BY <1>3, ScreenConstants DEF Loaded, HomeKeeps
<1>4. ASSUME TypeOK, LoadingFails PROVE RepoType'
  BY <1>4, ScreenConstants DEF LoadingFails, HomeKeeps
<1>5. ASSUME TypeOK, LeaveError PROVE RepoType'
  BY <1>5, ScreenConstants DEF LeaveError, HomeKeeps
<1>6. ASSUME TypeOK, LeaveList PROVE RepoType'
  BY <1>6, ScreenConstants DEF LeaveList, HomeKeeps
<1>7. ASSUME TypeOK, Reload PROVE RepoType'
  BY <1>7, ScreenConstants DEF Reload, HomeKeeps
<1>8. ASSUME TypeOK, OpenFilter PROVE RepoType'
  BY <1>8, ScreenConstants DEF OpenFilter, Go, HomeKeeps
<1>9. ASSUME TypeOK, PickKind PROVE RepoType'
  BY <1>9, ScreenConstants DEF PickKind, Go, HomeKeeps
<1>10. ASSUME TypeOK, ClearFilter PROVE RepoType'
  BY <1>10, ScreenConstants DEF ClearFilter, SetFilter, HomeKeeps
<1>11. ASSUME TypeOK, PickValue PROVE RepoType'
  <2>0. PICK i \in snapshots : \E t \in tags[i] : SetFilter({t})
    BY <1>11 DEF PickValue
  <2>1. PICK t \in tags[i] : SetFilter({t})
    BY <2>0
  <2>2. i \in Id
    BY <1>11, Rows
  <2>3. t \in Tag
    BY <1>11, <2>1, <2>2
  <2> QED
    BY <1>11, <2>1, <2>3 DEF SetFilter, HomeKeeps
<1>12. ASSUME TypeOK, AskDelete PROVE RepoType'
  BY <1>12, ScreenConstants DEF AskDelete, DeleteKeeps
<1>13. ASSUME TypeOK, Preview PROVE RepoType'
  BY <1>13, ScreenConstants DEF Preview, DeleteKeeps
<1>14. ASSUME TypeOK, PreviewFails PROVE RepoType'
  BY <1>14, ScreenConstants DEF PreviewFails, DeleteKeeps
<1>15. ASSUME TypeOK, LoadMore PROVE RepoType'
  BY <1>15, ScreenConstants DEF LoadMore, DeleteKeeps
<1>16. ASSUME TypeOK, ConfirmDelete PROVE RepoType'
  BY <1>16, ScreenConstants DEF ConfirmDelete, DeleteKeeps
<1>17. ASSUME TypeOK, Deleted PROVE RepoType'
  BY <1>17, ScreenConstants DEF Deleted, DeleteKeeps
<1>18. ASSUME TypeOK, DeleteFails PROVE RepoType'
  BY <1>18, ScreenConstants DEF DeleteFails, DeleteKeeps
<1>19. ASSUME TypeOK, CancelDelete PROVE RepoType'
  BY <1>19, ScreenConstants DEF CancelDelete, DeleteKeeps
<1>20. ASSUME TypeOK, EditTags PROVE RepoType'
  BY <1>20, ScreenConstants DEF EditTags, TagKeeps
<1>21. ASSUME TypeOK, EnterTags PROVE RepoType'
  BY <1>21, ScreenConstants DEF EnterTags, TagKeeps
<1>22. ASSUME TypeOK, TagsUnchanged PROVE RepoType'
  BY <1>22, ScreenConstants DEF TagsUnchanged, TagKeeps
<1>23. ASSUME TypeOK, TagsSaved PROVE RepoType'
  <2>1. there \ {tag_edit.target} \in SUBSET there /\ tag_edit.target # 0
    BY <1>23 DEF TagsSaved, Savable
  <2>2. Rewrite(there \ {tag_edit.target}) /\ UNCHANGED filter /\ snapshots' = {}
    BY <1>23 DEF TagsSaved
  <2> QED
    BY <1>23, <2>1, <2>2, Rewritten
<1>24. ASSUME TypeOK, TagsFail PROVE RepoType'
  <2>1. CASE UNCHANGED repo
    BY <1>24, <2>1 DEF TagsFail
  <2>2. CASE ~UNCHANGED repo
    <3>1. PICK old \in SUBSET there : Rewrite(old)
      BY <1>24, <2>2 DEF TagsFail, SaveFailed
    <3>2. tag_edit.target # 0 /\ UNCHANGED <<snapshots, filter>>
      BY <1>24, <2>2 DEF TagsFail, Savable
    <3> QED
      BY <1>24, <3>1, <3>2, Rewritten
  <2> QED
    BY <2>1, <2>2
<1>25. ASSUME TypeOK, CancelTags PROVE RepoType'
  BY <1>25, ScreenConstants DEF CancelTags, TagKeeps
<1>26. ASSUME TypeOK, ShareSnapshot PROVE RepoType'
  BY <1>26, ScreenConstants DEF ShareSnapshot, SmbKeeps
<1>27. ASSUME TypeOK, ShareStarts PROVE RepoType'
  BY <1>27, ScreenConstants DEF ShareStarts, SmbKeeps
<1>28. ASSUME TypeOK, ShareFails PROVE RepoType'
  BY <1>28, ScreenConstants DEF ShareFails, SmbKeeps
<1>29. ASSUME TypeOK, ShareStopped PROVE RepoType'
  BY <1>29, ScreenConstants DEF ShareStopped, SmbKeeps
<1>30. ASSUME TypeOK, StopShare PROVE RepoType'
  BY <1>30, ScreenConstants DEF StopShare, SmbKeeps
<1>31. ASSUME TypeOK, OfferUnlock PROVE RepoType'
  BY <1>31, ScreenConstants DEF OfferUnlock, UnlockFor, UnlockKeeps
<1>32. ASSUME TypeOK, Unlocked PROVE RepoType'
  BY <1>32, ScreenConstants DEF Unlocked, UnlockReturnTo
<1>33. ASSUME TypeOK, UnlockFails PROVE RepoType'
  BY <1>33, ScreenConstants DEF UnlockFails, UnlockKeeps
<1>34. ASSUME TypeOK, CompareFirst PROVE RepoType'
  BY <1>34, ScreenConstants DEF CompareFirst, CompareKeeps
<1>35. ASSUME TypeOK, CompareSecond PROVE RepoType'
  BY <1>35, ScreenConstants DEF CompareSecond, CompareKeeps
<1>36. ASSUME TypeOK, Compared PROVE RepoType'
  BY <1>36, ScreenConstants DEF Compared, CompareKeeps
<1>37. ASSUME TypeOK, CompareFails PROVE RepoType'
  BY <1>37, ScreenConstants DEF CompareFails, CompareKeeps
<1>38. ASSUME TypeOK, CancelCompare PROVE RepoType'
  BY <1>38, ScreenConstants DEF CancelCompare, CompareKeeps
<1>39. ASSUME TypeOK, OpenSnapshot PROVE RepoType'
  BY <1>39, ScreenConstants DEF OpenSnapshot, BrowseKeeps
<1>40. ASSUME TypeOK, Opened PROVE RepoType'
  BY <1>40, ScreenConstants DEF Opened, Go, HomeKeeps
<1>41. ASSUME TypeOK, ReopenSnapshot PROVE RepoType'
  BY <1>41, ScreenConstants DEF ReopenSnapshot, Go, HomeKeeps
<1>42. ASSUME TypeOK, BrowseFails PROVE RepoType'
  BY <1>42, ScreenConstants DEF BrowseFails, BrowseKeeps
<1>43. ASSUME TypeOK, CloseSnapshot PROVE RepoType'
  BY <1>43, ScreenConstants DEF CloseSnapshot, BrowseKeeps
<1>44. ASSUME TypeOK, AskPrune PROVE RepoType'
  BY <1>44, ScreenConstants DEF AskPrune, Go, HomeKeeps
<1>45. ASSUME TypeOK, ConfirmPrune PROVE RepoType'
  BY <1>45, ScreenConstants DEF ConfirmPrune, Go, HomeKeeps
<1>46. ASSUME TypeOK, Pruned PROVE RepoType'
  BY <1>46, ScreenConstants DEF Pruned, Go, HomeKeeps
<1>47. ASSUME TypeOK, LeavePrune PROVE RepoType'
  BY <1>47, ScreenConstants DEF LeavePrune, Go, HomeKeeps
<1>48. ASSUME TypeOK, PruneFails PROVE RepoType'
  BY <1>48, ScreenConstants DEF PruneFails, BrowseKeeps
<1>49. ASSUME TypeOK, OtherBackup PROVE RepoType'
  BY <1>49, ScreenConstants DEF OtherBackup, RepoOnly, Id
<1>50. ASSUME TypeOK, OtherForget PROVE RepoType'
  BY <1>50, ScreenConstants DEF OtherForget, RepoOnly
<1>51. ASSUME TypeOK, Go({"SnapshotFilterDim"}, "Snapshots") PROVE RepoType'
  BY <1>51, ScreenConstants DEF Go, HomeKeeps
<1>52. ASSUME TypeOK, Go({"SnapshotFilterValue"}, "SnapshotFilterDim") PROVE RepoType'
  BY <1>52, ScreenConstants DEF Go, HomeKeeps
<1>53. ASSUME TypeOK, UNCHANGED vars PROVE RepoType'
  BY <1>53 DEF vars
<1> QED
  BY <1>1, <1>2, <1>3, <1>4, <1>5, <1>6, <1>7, <1>8, <1>9, <1>10, <1>11, <1>12, <1>13,
    <1>14, <1>15, <1>16, <1>17, <1>18, <1>19, <1>20, <1>21, <1>22, <1>23, <1>24,
    <1>25, <1>26, <1>27, <1>28, <1>29, <1>30, <1>31, <1>32, <1>33, <1>34, <1>35,
    <1>36, <1>37, <1>38, <1>39, <1>40, <1>41, <1>42, <1>43, <1>44, <1>45, <1>46,
    <1>47, <1>48, <1>49, <1>50, <1>51, <1>52, <1>53 DEF Next, Loop, Esc, OtherKey,
    Environment

\* Every variable has its type, and every row and file was written.
THEOREM TypeCorrect == Spec => []TypeOK
<1>1. TypeOK /\ [Next]_vars => TypeOK'
  BY ViewStep, FlowStep, RepoStep DEF TypeOK
<1> QED
  BY <1>1, InitType, PTL DEF Spec

----------------------------------------------------------------------------
(* Flows keep their snapshot. *)

\* Away from Home the index of the open profile leads to the profile whose name
\* is on screen.
OpenProfile == screen # "Home" => Current = {active} /\ active # 0

\* A comparison has its snapshots one after the other, and starts with both.
PairPicked ==
  /\ screen = "SnapshotCompareLoading" => compare.second # 0
  /\ compare.first = 0 => compare.second = 0
FlowInv == FlowHasTarget /\ PairPicked

LEMMA OpenStep == TypeOK /\ OpenProfile /\ [Next]_vars => OpenProfile'
<1> USE DEF view, conf, list, repo, Show, Fail, OpenProfile
<1>1. ASSUME TypeOK, OpenProfile, EditProfiles PROVE OpenProfile'
  BY <1>1 DEF EditProfiles, HomeKeeps
<1>2. ASSUME TypeOK, OpenProfile, Activate PROVE OpenProfile'
  <2>1. PICK i \in 0..Profiles - 1 : ProfileAt(i) # {} /\ loading_index' = i /\ active' \in ProfileAt(i)
    BY <1>2 DEF Activate
  <2>2. ProfileAt(i) = {active'} /\ active' \in config
    BY <1>2, <2>1, OneProfile DEF ProfileAt, TypeOK, ViewType
  <2>3. Current' = ProfileAt(i)
    BY <1>2, <2>1 DEF Activate, Current, ProfileAt
  <2> QED
    BY <1>2, <2>2, <2>3, ScreenConstants DEF TypeOK, ViewType, Profile
<1>3. ASSUME TypeOK, OpenProfile, Loaded PROVE OpenProfile'
  BY <1>3, SameProfile DEF Loaded, HomeKeeps
<1>4. ASSUME TypeOK, OpenProfile, LoadingFails PROVE OpenProfile'
  BY <1>4, SameProfile DEF LoadingFails, HomeKeeps
<1>5. ASSUME TypeOK, OpenProfile, LeaveError PROVE OpenProfile'
  BY <1>5 DEF LeaveError, HomeKeeps
<1>6. ASSUME TypeOK, OpenProfile, LeaveList PROVE OpenProfile'
  BY <1>6 DEF LeaveList, HomeKeeps
<1>7. ASSUME TypeOK, OpenProfile, Reload PROVE OpenProfile'
  BY <1>7, SameProfile DEF Reload, HomeKeeps
<1>8. ASSUME TypeOK, OpenProfile, OpenFilter PROVE OpenProfile'
  BY <1>8, SameProfile DEF OpenFilter, Go, HomeKeeps
<1>9. ASSUME TypeOK, OpenProfile, PickKind PROVE OpenProfile'
  BY <1>9, SameProfile DEF PickKind, Go, HomeKeeps
<1>10. ASSUME TypeOK, OpenProfile, ClearFilter PROVE OpenProfile'
  BY <1>10, SameProfile DEF ClearFilter, SetFilter, HomeKeeps
<1>11. ASSUME TypeOK, OpenProfile, PickValue PROVE OpenProfile'
  BY <1>11, SameProfile DEF PickValue, SetFilter, HomeKeeps
<1>12. ASSUME TypeOK, OpenProfile, AskDelete PROVE OpenProfile'
  BY <1>12, SameProfile DEF AskDelete, DeleteKeeps
<1>13. ASSUME TypeOK, OpenProfile, Preview PROVE OpenProfile'
  BY <1>13, SameProfile DEF Preview, DeleteKeeps
<1>14. ASSUME TypeOK, OpenProfile, PreviewFails PROVE OpenProfile'
  BY <1>14, SameProfile DEF PreviewFails, DeleteKeeps
<1>15. ASSUME TypeOK, OpenProfile, LoadMore PROVE OpenProfile'
  BY <1>15, SameProfile DEF LoadMore, DeleteKeeps
<1>16. ASSUME TypeOK, OpenProfile, ConfirmDelete PROVE OpenProfile'
  BY <1>16, SameProfile DEF ConfirmDelete, DeleteKeeps
<1>17. ASSUME TypeOK, OpenProfile, Deleted PROVE OpenProfile'
  BY <1>17, SameProfile DEF Deleted, DeleteKeeps
<1>18. ASSUME TypeOK, OpenProfile, DeleteFails PROVE OpenProfile'
  BY <1>18, SameProfile DEF DeleteFails, DeleteKeeps
<1>19. ASSUME TypeOK, OpenProfile, CancelDelete PROVE OpenProfile'
  BY <1>19, SameProfile DEF CancelDelete, DeleteKeeps
<1>20. ASSUME TypeOK, OpenProfile, EditTags PROVE OpenProfile'
  BY <1>20, SameProfile DEF EditTags, TagKeeps
<1>21. ASSUME TypeOK, OpenProfile, EnterTags PROVE OpenProfile'
  BY <1>21, SameProfile DEF EnterTags, TagKeeps
<1>22. ASSUME TypeOK, OpenProfile, TagsUnchanged PROVE OpenProfile'
  BY <1>22, SameProfile DEF TagsUnchanged, TagKeeps
<1>23. ASSUME TypeOK, OpenProfile, TagsSaved PROVE OpenProfile'
  BY <1>23, SameProfile DEF TagsSaved, TagKeeps, Rewrite
<1>24. ASSUME TypeOK, OpenProfile, TagsFail PROVE OpenProfile'
  BY <1>24, SameProfile DEF TagsFail, TagKeeps, SaveFailed, Rewrite
<1>25. ASSUME TypeOK, OpenProfile, CancelTags PROVE OpenProfile'
  BY <1>25, SameProfile DEF CancelTags, TagKeeps
<1>26. ASSUME TypeOK, OpenProfile, ShareSnapshot PROVE OpenProfile'
  BY <1>26, SameProfile DEF ShareSnapshot, SmbKeeps
<1>27. ASSUME TypeOK, OpenProfile, ShareStarts PROVE OpenProfile'
  BY <1>27, SameProfile DEF ShareStarts, SmbKeeps
<1>28. ASSUME TypeOK, OpenProfile, ShareFails PROVE OpenProfile'
  BY <1>28, SameProfile DEF ShareFails, SmbKeeps
<1>29. ASSUME TypeOK, OpenProfile, ShareStopped PROVE OpenProfile'
  BY <1>29, SameProfile DEF ShareStopped, SmbKeeps
<1>30. ASSUME TypeOK, OpenProfile, StopShare PROVE OpenProfile'
  BY <1>30, SameProfile DEF StopShare, SmbKeeps
<1>31. ASSUME TypeOK, OpenProfile, OfferUnlock PROVE OpenProfile'
  BY <1>31, SameProfile DEF OfferUnlock, UnlockFor, UnlockKeeps
<1>32. ASSUME TypeOK, OpenProfile, Unlocked PROVE OpenProfile'
  BY <1>32, SameProfile DEF Unlocked, UnlockReturnTo
<1>33. ASSUME TypeOK, OpenProfile, UnlockFails PROVE OpenProfile'
  BY <1>33, SameProfile DEF UnlockFails, UnlockKeeps
<1>34. ASSUME TypeOK, OpenProfile, CompareFirst PROVE OpenProfile'
  BY <1>34, SameProfile DEF CompareFirst, CompareKeeps
<1>35. ASSUME TypeOK, OpenProfile, CompareSecond PROVE OpenProfile'
  BY <1>35, SameProfile DEF CompareSecond, CompareKeeps
<1>36. ASSUME TypeOK, OpenProfile, Compared PROVE OpenProfile'
  BY <1>36, SameProfile DEF Compared, CompareKeeps
<1>37. ASSUME TypeOK, OpenProfile, CompareFails PROVE OpenProfile'
  BY <1>37, SameProfile DEF CompareFails, CompareKeeps
<1>38. ASSUME TypeOK, OpenProfile, CancelCompare PROVE OpenProfile'
  BY <1>38, SameProfile DEF CancelCompare, CompareKeeps
<1>39. ASSUME TypeOK, OpenProfile, OpenSnapshot PROVE OpenProfile'
  BY <1>39, SameProfile DEF OpenSnapshot, BrowseKeeps
<1>40. ASSUME TypeOK, OpenProfile, Opened PROVE OpenProfile'
  BY <1>40, SameProfile DEF Opened, Go, HomeKeeps
<1>41. ASSUME TypeOK, OpenProfile, ReopenSnapshot PROVE OpenProfile'
  BY <1>41, SameProfile DEF ReopenSnapshot, Go, HomeKeeps
<1>42. ASSUME TypeOK, OpenProfile, BrowseFails PROVE OpenProfile'
  BY <1>42, SameProfile DEF BrowseFails, BrowseKeeps, BrowseScreens
<1>43. ASSUME TypeOK, OpenProfile, CloseSnapshot PROVE OpenProfile'
  BY <1>43, SameProfile DEF CloseSnapshot, BrowseKeeps
<1>44. ASSUME TypeOK, OpenProfile, AskPrune PROVE OpenProfile'
  BY <1>44, SameProfile DEF AskPrune, Go, HomeKeeps
<1>45. ASSUME TypeOK, OpenProfile, ConfirmPrune PROVE OpenProfile'
  BY <1>45, SameProfile DEF ConfirmPrune, Go, HomeKeeps
<1>46. ASSUME TypeOK, OpenProfile, Pruned PROVE OpenProfile'
  BY <1>46, SameProfile DEF Pruned, Go, HomeKeeps
<1>47. ASSUME TypeOK, OpenProfile, LeavePrune PROVE OpenProfile'
  BY <1>47, SameProfile DEF LeavePrune, Go, HomeKeeps
<1>48. ASSUME TypeOK, OpenProfile, PruneFails PROVE OpenProfile'
  BY <1>48, SameProfile DEF PruneFails, BrowseKeeps
<1>49. ASSUME TypeOK, OpenProfile, OtherBackup PROVE OpenProfile'
  BY <1>49, SameProfile DEF OtherBackup, RepoOnly
<1>50. ASSUME TypeOK, OpenProfile, OtherForget PROVE OpenProfile'
  BY <1>50, SameProfile DEF OtherForget, RepoOnly
<1>51. ASSUME TypeOK, OpenProfile, Go({"SnapshotFilterDim"}, "Snapshots") PROVE OpenProfile'
  BY <1>51, SameProfile DEF Go, HomeKeeps
<1>52. ASSUME TypeOK, OpenProfile, Go({"SnapshotFilterValue"}, "SnapshotFilterDim") PROVE OpenProfile'
  BY <1>52, SameProfile DEF Go, HomeKeeps
<1>53. ASSUME TypeOK, OpenProfile, UNCHANGED vars PROVE OpenProfile'
  BY <1>53, SameProfile DEF vars
<1> QED
  BY <1>1, <1>2, <1>3, <1>4, <1>5, <1>6, <1>7, <1>8, <1>9, <1>10, <1>11, <1>12, <1>13,
    <1>14, <1>15, <1>16, <1>17, <1>18, <1>19, <1>20, <1>21, <1>22, <1>23, <1>24,
    <1>25, <1>26, <1>27, <1>28, <1>29, <1>30, <1>31, <1>32, <1>33, <1>34, <1>35,
    <1>36, <1>37, <1>38, <1>39, <1>40, <1>41, <1>42, <1>43, <1>44, <1>45, <1>46,
    <1>47, <1>48, <1>49, <1>50, <1>51, <1>52, <1>53 DEF Next, Loop, Esc, OtherKey,
    Environment

LEMMA FlowInvStep == TypeOK /\ OpenProfile /\ FlowInv /\ [Next]_vars => FlowInv'
<1> USE DEF view, conf, list, repo, Show, Fail, TypeOK, FlowType, ViewType, NoneOr,
  FlowInv, FlowHasTarget, PairPicked, InUnlock, NoDelete, NoTagEdit, NoShare,
  NoHandle, NoCompare, DeleteScreens, TagScreens, SmbScreens, CompareScreens,
  BrowseScreens, OpenProfile, Id
<1>1. ASSUME TypeOK, OpenProfile, FlowInv, EditProfiles PROVE FlowInv'
  BY <1>1 DEF EditProfiles, HomeKeeps
<1>2. ASSUME TypeOK, OpenProfile, FlowInv, Activate PROVE FlowInv'
  BY <1>2 DEF Activate, HomeKeeps
<1>3. ASSUME TypeOK, OpenProfile, FlowInv, Loaded PROVE FlowInv'
  BY <1>3 DEF Loaded, HomeKeeps
<1>4. ASSUME TypeOK, OpenProfile, FlowInv, LoadingFails PROVE FlowInv'
  BY <1>4 DEF LoadingFails, HomeKeeps
<1>5. ASSUME TypeOK, OpenProfile, FlowInv, LeaveError PROVE FlowInv'
  BY <1>5 DEF LeaveError, HomeKeeps
<1>6. ASSUME TypeOK, OpenProfile, FlowInv, LeaveList PROVE FlowInv'
  BY <1>6 DEF LeaveList, HomeKeeps
<1>7. ASSUME TypeOK, OpenProfile, FlowInv, Reload PROVE FlowInv'
  BY <1>7 DEF Reload, HomeKeeps
<1>8. ASSUME TypeOK, OpenProfile, FlowInv, OpenFilter PROVE FlowInv'
  BY <1>8 DEF OpenFilter, Go, HomeKeeps
<1>9. ASSUME TypeOK, OpenProfile, FlowInv, PickKind PROVE FlowInv'
  BY <1>9 DEF PickKind, Go, HomeKeeps
<1>10. ASSUME TypeOK, OpenProfile, FlowInv, ClearFilter PROVE FlowInv'
  BY <1>10 DEF ClearFilter, SetFilter, HomeKeeps
<1>11. ASSUME TypeOK, OpenProfile, FlowInv, PickValue PROVE FlowInv'
  BY <1>11 DEF PickValue, SetFilter, HomeKeeps
<1>12. ASSUME TypeOK, OpenProfile, FlowInv, AskDelete PROVE FlowInv'
  BY <1>12, Rows DEF AskDelete, DeleteKeeps
<1>13. ASSUME TypeOK, OpenProfile, FlowInv, Preview PROVE FlowInv'
  BY <1>13 DEF Preview, DeleteKeeps
<1>14. ASSUME TypeOK, OpenProfile, FlowInv, PreviewFails PROVE FlowInv'
  BY <1>14 DEF PreviewFails, DeleteKeeps
<1>15. ASSUME TypeOK, OpenProfile, FlowInv, LoadMore PROVE FlowInv'
  BY <1>15 DEF LoadMore, DeleteKeeps
<1>16. ASSUME TypeOK, OpenProfile, FlowInv, ConfirmDelete PROVE FlowInv'
  BY <1>16 DEF ConfirmDelete, DeleteKeeps
<1>17. ASSUME TypeOK, OpenProfile, FlowInv, Deleted PROVE FlowInv'
  BY <1>17 DEF Deleted, DeleteKeeps
<1>18. ASSUME TypeOK, OpenProfile, FlowInv, DeleteFails PROVE FlowInv'
  BY <1>18 DEF DeleteFails, DeleteKeeps
<1>19. ASSUME TypeOK, OpenProfile, FlowInv, CancelDelete PROVE FlowInv'
  BY <1>19 DEF CancelDelete, DeleteKeeps
<1>20. ASSUME TypeOK, OpenProfile, FlowInv, EditTags PROVE FlowInv'
  BY <1>20, Rows DEF EditTags, TagKeeps
<1>21. ASSUME TypeOK, OpenProfile, FlowInv, EnterTags PROVE FlowInv'
  BY <1>21 DEF EnterTags, TagKeeps
<1>22. ASSUME TypeOK, OpenProfile, FlowInv, TagsUnchanged PROVE FlowInv'
  BY <1>22 DEF TagsUnchanged, TagKeeps
<1>23. ASSUME TypeOK, OpenProfile, FlowInv, TagsSaved PROVE FlowInv'
  BY <1>23 DEF TagsSaved, TagKeeps, Rewrite
<1>24. ASSUME TypeOK, OpenProfile, FlowInv, TagsFail PROVE FlowInv'
  BY <1>24 DEF TagsFail, TagKeeps, SaveFailed, Rewrite
<1>25. ASSUME TypeOK, OpenProfile, FlowInv, CancelTags PROVE FlowInv'
  BY <1>25 DEF CancelTags, TagKeeps
<1>26. ASSUME TypeOK, OpenProfile, FlowInv, ShareSnapshot PROVE FlowInv'
  BY <1>26, Rows DEF ShareSnapshot, SmbKeeps
<1>27. ASSUME TypeOK, OpenProfile, FlowInv, ShareStarts PROVE FlowInv'
  BY <1>27 DEF ShareStarts, SmbKeeps
<1>28. ASSUME TypeOK, OpenProfile, FlowInv, ShareFails PROVE FlowInv'
  BY <1>28 DEF ShareFails, SmbKeeps
<1>29. ASSUME TypeOK, OpenProfile, FlowInv, ShareStopped PROVE FlowInv'
  BY <1>29 DEF ShareStopped, SmbKeeps
<1>30. ASSUME TypeOK, OpenProfile, FlowInv, StopShare PROVE FlowInv'
  BY <1>30 DEF StopShare, SmbKeeps
<1>31. ASSUME TypeOK, OpenProfile, FlowInv, OfferUnlock PROVE FlowInv'
  BY <1>31 DEF OfferUnlock, UnlockFor, UnlockKeeps
<1>32. ASSUME TypeOK, OpenProfile, FlowInv, Unlocked PROVE FlowInv'
  BY <1>32 DEF Unlocked, UnlockReturnTo
<1>33. ASSUME TypeOK, OpenProfile, FlowInv, UnlockFails PROVE FlowInv'
  BY <1>33 DEF UnlockFails, UnlockKeeps
<1>34. ASSUME TypeOK, OpenProfile, FlowInv, CompareFirst PROVE FlowInv'
  BY <1>34, Rows DEF CompareFirst, CompareKeeps
<1>35. ASSUME TypeOK, OpenProfile, FlowInv, CompareSecond PROVE FlowInv'
  BY <1>35, Rows DEF CompareSecond, CompareKeeps
<1>36. ASSUME TypeOK, OpenProfile, FlowInv, Compared PROVE FlowInv'
  BY <1>36 DEF Compared, CompareKeeps
<1>37. ASSUME TypeOK, OpenProfile, FlowInv, CompareFails PROVE FlowInv'
  BY <1>37 DEF CompareFails, CompareKeeps
<1>38. ASSUME TypeOK, OpenProfile, FlowInv, CancelCompare PROVE FlowInv'
  BY <1>38 DEF CancelCompare, CompareKeeps
<1>39. ASSUME TypeOK, OpenProfile, FlowInv, OpenSnapshot PROVE FlowInv'
  BY <1>39, Rows DEF OpenSnapshot, BrowseKeeps
<1>40. ASSUME TypeOK, OpenProfile, FlowInv, Opened PROVE FlowInv'
  BY <1>40 DEF Opened, Go, HomeKeeps
<1>41. ASSUME TypeOK, OpenProfile, FlowInv, ReopenSnapshot PROVE FlowInv'
  BY <1>41 DEF ReopenSnapshot, Go, HomeKeeps
<1>42. ASSUME TypeOK, OpenProfile, FlowInv, BrowseFails PROVE FlowInv'
  BY <1>42 DEF BrowseFails, BrowseKeeps
<1>43. ASSUME TypeOK, OpenProfile, FlowInv, CloseSnapshot PROVE FlowInv'
  BY <1>43 DEF CloseSnapshot, BrowseKeeps
<1>44. ASSUME TypeOK, OpenProfile, FlowInv, AskPrune PROVE FlowInv'
  BY <1>44 DEF AskPrune, Go, HomeKeeps
<1>45. ASSUME TypeOK, OpenProfile, FlowInv, ConfirmPrune PROVE FlowInv'
  BY <1>45 DEF ConfirmPrune, Go, HomeKeeps
<1>46. ASSUME TypeOK, OpenProfile, FlowInv, Pruned PROVE FlowInv'
  BY <1>46 DEF Pruned, Go, HomeKeeps
<1>47. ASSUME TypeOK, OpenProfile, FlowInv, LeavePrune PROVE FlowInv'
  BY <1>47 DEF LeavePrune, Go, HomeKeeps
<1>48. ASSUME TypeOK, OpenProfile, FlowInv, PruneFails PROVE FlowInv'
  BY <1>48 DEF PruneFails, BrowseKeeps
<1>49. ASSUME TypeOK, OpenProfile, FlowInv, OtherBackup PROVE FlowInv'
  BY <1>49 DEF OtherBackup, RepoOnly
<1>50. ASSUME TypeOK, OpenProfile, FlowInv, OtherForget PROVE FlowInv'
  BY <1>50 DEF OtherForget, RepoOnly
<1>51. ASSUME TypeOK, OpenProfile, FlowInv, Go({"SnapshotFilterDim"}, "Snapshots") PROVE FlowInv'
  BY <1>51 DEF Go, HomeKeeps
<1>52. ASSUME TypeOK, OpenProfile, FlowInv, Go({"SnapshotFilterValue"}, "SnapshotFilterDim") PROVE FlowInv'
  BY <1>52 DEF Go, HomeKeeps
<1>53. ASSUME TypeOK, OpenProfile, FlowInv, UNCHANGED vars PROVE FlowInv'
  BY <1>53 DEF vars
<1> QED
  BY <1>1, <1>2, <1>3, <1>4, <1>5, <1>6, <1>7, <1>8, <1>9, <1>10, <1>11, <1>12, <1>13,
    <1>14, <1>15, <1>16, <1>17, <1>18, <1>19, <1>20, <1>21, <1>22, <1>23, <1>24,
    <1>25, <1>26, <1>27, <1>28, <1>29, <1>30, <1>31, <1>32, <1>33, <1>34, <1>35,
    <1>36, <1>37, <1>38, <1>39, <1>40, <1>41, <1>42, <1>43, <1>44, <1>45, <1>46,
    <1>47, <1>48, <1>49, <1>50, <1>51, <1>52, <1>53 DEF Next, Loop, Esc, OtherKey,
    Environment

\* In every reachable state.
LEMMA FlowsInvariant == Spec => [](OpenProfile /\ FlowInv)
<1>1. Init => OpenProfile /\ FlowInv
  BY DEF Init, OpenProfile, FlowInv, FlowHasTarget, PairPicked, InUnlock,
    NoDelete, NoTagEdit, NoShare, NoCompare, DeleteScreens, TagScreens,
    SmbScreens, CompareScreens
<1> QED
  BY <1>1, OpenStep, FlowInvStep, TypeCorrect, PTL DEF Spec

\* Every flow has its snapshot exactly while one of its screens is up.
THEOREM FlowsHaveTargets == Spec => []FlowHasTarget
<1>1. FlowInv => FlowHasTarget
  BY DEF FlowInv
<1> QED
  BY <1>1, FlowsInvariant, PTL

LEMMA LostStep == TypeOK /\ OpenProfile /\ FlowInv /\ NeverLost /\ [Next]_vars => NeverLost'
<1> USE DEF view, conf, list, repo, Show, Fail, TypeOK, FlowType, ViewType, NoneOr,
  FlowInv, FlowHasTarget, PairPicked, InUnlock, NoDelete, NoTagEdit, NoShare,
  NoHandle, NoCompare, DeleteScreens, TagScreens, SmbScreens, CompareScreens,
  BrowseScreens, OpenProfile, NeverLost, Savable
<1>1. ASSUME TypeOK, OpenProfile, FlowInv, NeverLost, EditProfiles PROVE NeverLost'
  BY <1>1 DEF EditProfiles, HomeKeeps
<1>2. ASSUME TypeOK, OpenProfile, FlowInv, NeverLost, Activate PROVE NeverLost'
  BY <1>2 DEF Activate, HomeKeeps
<1>3. ASSUME TypeOK, OpenProfile, FlowInv, NeverLost, Loaded PROVE NeverLost'
  BY <1>3 DEF Loaded, HomeKeeps
<1>4. ASSUME TypeOK, OpenProfile, FlowInv, NeverLost, LoadingFails PROVE NeverLost'
  BY <1>4 DEF LoadingFails, HomeKeeps
<1>5. ASSUME TypeOK, OpenProfile, FlowInv, NeverLost, LeaveError PROVE NeverLost'
  BY <1>5 DEF LeaveError, HomeKeeps
<1>6. ASSUME TypeOK, OpenProfile, FlowInv, NeverLost, LeaveList PROVE NeverLost'
  BY <1>6 DEF LeaveList, HomeKeeps
<1>7. ASSUME TypeOK, OpenProfile, FlowInv, NeverLost, Reload PROVE NeverLost'
  BY <1>7 DEF Reload, HomeKeeps
<1>8. ASSUME TypeOK, OpenProfile, FlowInv, NeverLost, OpenFilter PROVE NeverLost'
  BY <1>8 DEF OpenFilter, Go, HomeKeeps
<1>9. ASSUME TypeOK, OpenProfile, FlowInv, NeverLost, PickKind PROVE NeverLost'
  BY <1>9 DEF PickKind, Go, HomeKeeps
<1>10. ASSUME TypeOK, OpenProfile, FlowInv, NeverLost, ClearFilter PROVE NeverLost'
  BY <1>10 DEF ClearFilter, SetFilter, HomeKeeps
<1>11. ASSUME TypeOK, OpenProfile, FlowInv, NeverLost, PickValue PROVE NeverLost'
  BY <1>11 DEF PickValue, SetFilter, HomeKeeps
<1>12. ASSUME TypeOK, OpenProfile, FlowInv, NeverLost, AskDelete PROVE NeverLost'
  BY <1>12 DEF AskDelete, DeleteKeeps
<1>13. ASSUME TypeOK, OpenProfile, FlowInv, NeverLost, Preview PROVE NeverLost'
  BY <1>13 DEF Preview, DeleteKeeps
<1>14. ASSUME TypeOK, OpenProfile, FlowInv, NeverLost, PreviewFails PROVE NeverLost'
  BY <1>14 DEF PreviewFails, DeleteKeeps
<1>15. ASSUME TypeOK, OpenProfile, FlowInv, NeverLost, LoadMore PROVE NeverLost'
  BY <1>15 DEF LoadMore, DeleteKeeps
<1>16. ASSUME TypeOK, OpenProfile, FlowInv, NeverLost, ConfirmDelete PROVE NeverLost'
  BY <1>16 DEF ConfirmDelete, DeleteKeeps
<1>17. ASSUME TypeOK, OpenProfile, FlowInv, NeverLost, Deleted PROVE NeverLost'
  BY <1>17 DEF Deleted, DeleteKeeps
<1>18. ASSUME TypeOK, OpenProfile, FlowInv, NeverLost, DeleteFails PROVE NeverLost'
  BY <1>18 DEF DeleteFails, DeleteKeeps
<1>19. ASSUME TypeOK, OpenProfile, FlowInv, NeverLost, CancelDelete PROVE NeverLost'
  BY <1>19 DEF CancelDelete, DeleteKeeps
<1>20. ASSUME TypeOK, OpenProfile, FlowInv, NeverLost, EditTags PROVE NeverLost'
  BY <1>20 DEF EditTags, TagKeeps
<1>21. ASSUME TypeOK, OpenProfile, FlowInv, NeverLost, EnterTags PROVE NeverLost'
  BY <1>21 DEF EnterTags, TagKeeps
<1>22. ASSUME TypeOK, OpenProfile, FlowInv, NeverLost, TagsUnchanged PROVE NeverLost'
  BY <1>22 DEF TagsUnchanged, TagKeeps
<1>23. ASSUME TypeOK, OpenProfile, FlowInv, NeverLost, TagsSaved PROVE NeverLost'
  BY <1>23 DEF TagsSaved, TagKeeps, Rewrite
<1>24. ASSUME TypeOK, OpenProfile, FlowInv, NeverLost, TagsFail PROVE NeverLost'
  BY <1>24 DEF TagsFail, TagKeeps, SaveFailed, Rewrite
<1>25. ASSUME TypeOK, OpenProfile, FlowInv, NeverLost, CancelTags PROVE NeverLost'
  BY <1>25 DEF CancelTags, TagKeeps
<1>26. ASSUME TypeOK, OpenProfile, FlowInv, NeverLost, ShareSnapshot PROVE NeverLost'
  BY <1>26 DEF ShareSnapshot, SmbKeeps
<1>27. ASSUME TypeOK, OpenProfile, FlowInv, NeverLost, ShareStarts PROVE NeverLost'
  BY <1>27 DEF ShareStarts, SmbKeeps
<1>28. ASSUME TypeOK, OpenProfile, FlowInv, NeverLost, ShareFails PROVE NeverLost'
  BY <1>28 DEF ShareFails, SmbKeeps
<1>29. ASSUME TypeOK, OpenProfile, FlowInv, NeverLost, ShareStopped PROVE NeverLost'
  BY <1>29 DEF ShareStopped, SmbKeeps
<1>30. ASSUME TypeOK, OpenProfile, FlowInv, NeverLost, StopShare PROVE NeverLost'
  BY <1>30 DEF StopShare, SmbKeeps
<1>31. ASSUME TypeOK, OpenProfile, FlowInv, NeverLost, OfferUnlock PROVE NeverLost'
  BY <1>31 DEF OfferUnlock, UnlockFor, UnlockKeeps
<1>32. ASSUME TypeOK, OpenProfile, FlowInv, NeverLost, Unlocked PROVE NeverLost'
  BY <1>32 DEF Unlocked, UnlockReturnTo
<1>33. ASSUME TypeOK, OpenProfile, FlowInv, NeverLost, UnlockFails PROVE NeverLost'
  BY <1>33 DEF UnlockFails, UnlockKeeps
<1>34. ASSUME TypeOK, OpenProfile, FlowInv, NeverLost, CompareFirst PROVE NeverLost'
  BY <1>34 DEF CompareFirst, CompareKeeps
<1>35. ASSUME TypeOK, OpenProfile, FlowInv, NeverLost, CompareSecond PROVE NeverLost'
  BY <1>35 DEF CompareSecond, CompareKeeps
<1>36. ASSUME TypeOK, OpenProfile, FlowInv, NeverLost, Compared PROVE NeverLost'
  BY <1>36 DEF Compared, CompareKeeps
<1>37. ASSUME TypeOK, OpenProfile, FlowInv, NeverLost, CompareFails PROVE NeverLost'
  BY <1>37 DEF CompareFails, CompareKeeps
<1>38. ASSUME TypeOK, OpenProfile, FlowInv, NeverLost, CancelCompare PROVE NeverLost'
  BY <1>38 DEF CancelCompare, CompareKeeps
<1>39. ASSUME TypeOK, OpenProfile, FlowInv, NeverLost, OpenSnapshot PROVE NeverLost'
  BY <1>39 DEF OpenSnapshot, BrowseKeeps
<1>40. ASSUME TypeOK, OpenProfile, FlowInv, NeverLost, Opened PROVE NeverLost'
  BY <1>40 DEF Opened, Go, HomeKeeps
<1>41. ASSUME TypeOK, OpenProfile, FlowInv, NeverLost, ReopenSnapshot PROVE NeverLost'
  BY <1>41 DEF ReopenSnapshot, Go, HomeKeeps
<1>42. ASSUME TypeOK, OpenProfile, FlowInv, NeverLost, BrowseFails PROVE NeverLost'
  BY <1>42 DEF BrowseFails, BrowseKeeps
<1>43. ASSUME TypeOK, OpenProfile, FlowInv, NeverLost, CloseSnapshot PROVE NeverLost'
  BY <1>43 DEF CloseSnapshot, BrowseKeeps
<1>44. ASSUME TypeOK, OpenProfile, FlowInv, NeverLost, AskPrune PROVE NeverLost'
  BY <1>44 DEF AskPrune, Go, HomeKeeps
<1>45. ASSUME TypeOK, OpenProfile, FlowInv, NeverLost, ConfirmPrune PROVE NeverLost'
  BY <1>45 DEF ConfirmPrune, Go, HomeKeeps
<1>46. ASSUME TypeOK, OpenProfile, FlowInv, NeverLost, Pruned PROVE NeverLost'
  BY <1>46 DEF Pruned, Go, HomeKeeps
<1>47. ASSUME TypeOK, OpenProfile, FlowInv, NeverLost, LeavePrune PROVE NeverLost'
  BY <1>47 DEF LeavePrune, Go, HomeKeeps
<1>48. ASSUME TypeOK, OpenProfile, FlowInv, NeverLost, PruneFails PROVE NeverLost'
  BY <1>48 DEF PruneFails, BrowseKeeps
<1>49. ASSUME TypeOK, OpenProfile, FlowInv, NeverLost, OtherBackup PROVE NeverLost'
  BY <1>49 DEF OtherBackup, RepoOnly
<1>50. ASSUME TypeOK, OpenProfile, FlowInv, NeverLost, OtherForget PROVE NeverLost'
  BY <1>50 DEF OtherForget, RepoOnly
<1>51. ASSUME TypeOK, OpenProfile, FlowInv, NeverLost, Go({"SnapshotFilterDim"}, "Snapshots") PROVE NeverLost'
  BY <1>51 DEF Go, HomeKeeps
<1>52. ASSUME TypeOK, OpenProfile, FlowInv, NeverLost, Go({"SnapshotFilterValue"}, "SnapshotFilterDim") PROVE NeverLost'
  BY <1>52 DEF Go, HomeKeeps
<1>53. ASSUME TypeOK, OpenProfile, FlowInv, NeverLost, UNCHANGED vars PROVE NeverLost'
  BY <1>53 DEF vars
<1> QED
  BY <1>1, <1>2, <1>3, <1>4, <1>5, <1>6, <1>7, <1>8, <1>9, <1>10, <1>11, <1>12, <1>13,
    <1>14, <1>15, <1>16, <1>17, <1>18, <1>19, <1>20, <1>21, <1>22, <1>23, <1>24,
    <1>25, <1>26, <1>27, <1>28, <1>29, <1>30, <1>31, <1>32, <1>33, <1>34, <1>35,
    <1>36, <1>37, <1>38, <1>39, <1>40, <1>41, <1>42, <1>43, <1>44, <1>45, <1>46,
    <1>47, <1>48, <1>49, <1>50, <1>51, <1>52, <1>53 DEF Next, Loop, Esc, OtherKey,
    Environment

\* No branch for a target or a profile that vanished is ever taken.
THEOREM NothingLost == Spec => []NeverLost
<1>1. Init => NeverLost
  BY DEF Init, NeverLost, NoShare
<1> QED
  BY <1>1, LostStep, FlowsInvariant, TypeCorrect, PTL DEF Spec

\* No flow loses what it is about.
THEOREM FlowsAreHeld == Spec => []FlowsHold
<1>1. FlowHasTarget /\ NeverLost => FlowsHold
  BY DEF FlowsHold
<1> QED
  BY <1>1, FlowsHaveTargets, NothingLost, PTL

----------------------------------------------------------------------------
(* The server and its screen. *)

LEMMA ServerStep == TypeOK /\ OpenProfile /\ FlowInv /\ ServerShown /\ [Next]_vars => ServerShown'
<1> USE DEF view, conf, list, repo, Show, Fail, TypeOK, FlowType, ViewType, NoneOr,
  FlowInv, FlowHasTarget, PairPicked, InUnlock, NoDelete, NoTagEdit, NoShare,
  NoHandle, NoCompare, DeleteScreens, TagScreens, SmbScreens, CompareScreens,
  BrowseScreens, OpenProfile, ServerShown
<1>1. ASSUME TypeOK, OpenProfile, FlowInv, ServerShown, EditProfiles PROVE ServerShown'
  BY <1>1 DEF EditProfiles, HomeKeeps
<1>2. ASSUME TypeOK, OpenProfile, FlowInv, ServerShown, Activate PROVE ServerShown'
  BY <1>2 DEF Activate, HomeKeeps
<1>3. ASSUME TypeOK, OpenProfile, FlowInv, ServerShown, Loaded PROVE ServerShown'
  BY <1>3 DEF Loaded, HomeKeeps
<1>4. ASSUME TypeOK, OpenProfile, FlowInv, ServerShown, LoadingFails PROVE ServerShown'
  BY <1>4 DEF LoadingFails, HomeKeeps
<1>5. ASSUME TypeOK, OpenProfile, FlowInv, ServerShown, LeaveError PROVE ServerShown'
  BY <1>5 DEF LeaveError, HomeKeeps
<1>6. ASSUME TypeOK, OpenProfile, FlowInv, ServerShown, LeaveList PROVE ServerShown'
  BY <1>6 DEF LeaveList, HomeKeeps
<1>7. ASSUME TypeOK, OpenProfile, FlowInv, ServerShown, Reload PROVE ServerShown'
  BY <1>7 DEF Reload, HomeKeeps
<1>8. ASSUME TypeOK, OpenProfile, FlowInv, ServerShown, OpenFilter PROVE ServerShown'
  BY <1>8 DEF OpenFilter, Go, HomeKeeps
<1>9. ASSUME TypeOK, OpenProfile, FlowInv, ServerShown, PickKind PROVE ServerShown'
  BY <1>9 DEF PickKind, Go, HomeKeeps
<1>10. ASSUME TypeOK, OpenProfile, FlowInv, ServerShown, ClearFilter PROVE ServerShown'
  BY <1>10 DEF ClearFilter, SetFilter, HomeKeeps
<1>11. ASSUME TypeOK, OpenProfile, FlowInv, ServerShown, PickValue PROVE ServerShown'
  BY <1>11 DEF PickValue, SetFilter, HomeKeeps
<1>12. ASSUME TypeOK, OpenProfile, FlowInv, ServerShown, AskDelete PROVE ServerShown'
  BY <1>12 DEF AskDelete, DeleteKeeps
<1>13. ASSUME TypeOK, OpenProfile, FlowInv, ServerShown, Preview PROVE ServerShown'
  BY <1>13 DEF Preview, DeleteKeeps
<1>14. ASSUME TypeOK, OpenProfile, FlowInv, ServerShown, PreviewFails PROVE ServerShown'
  BY <1>14 DEF PreviewFails, DeleteKeeps
<1>15. ASSUME TypeOK, OpenProfile, FlowInv, ServerShown, LoadMore PROVE ServerShown'
  BY <1>15 DEF LoadMore, DeleteKeeps
<1>16. ASSUME TypeOK, OpenProfile, FlowInv, ServerShown, ConfirmDelete PROVE ServerShown'
  BY <1>16 DEF ConfirmDelete, DeleteKeeps
<1>17. ASSUME TypeOK, OpenProfile, FlowInv, ServerShown, Deleted PROVE ServerShown'
  BY <1>17 DEF Deleted, DeleteKeeps
<1>18. ASSUME TypeOK, OpenProfile, FlowInv, ServerShown, DeleteFails PROVE ServerShown'
  BY <1>18 DEF DeleteFails, DeleteKeeps
<1>19. ASSUME TypeOK, OpenProfile, FlowInv, ServerShown, CancelDelete PROVE ServerShown'
  BY <1>19 DEF CancelDelete, DeleteKeeps
<1>20. ASSUME TypeOK, OpenProfile, FlowInv, ServerShown, EditTags PROVE ServerShown'
  BY <1>20 DEF EditTags, TagKeeps
<1>21. ASSUME TypeOK, OpenProfile, FlowInv, ServerShown, EnterTags PROVE ServerShown'
  BY <1>21 DEF EnterTags, TagKeeps
<1>22. ASSUME TypeOK, OpenProfile, FlowInv, ServerShown, TagsUnchanged PROVE ServerShown'
  BY <1>22 DEF TagsUnchanged, TagKeeps
<1>23. ASSUME TypeOK, OpenProfile, FlowInv, ServerShown, TagsSaved PROVE ServerShown'
  BY <1>23 DEF TagsSaved, TagKeeps, Rewrite
<1>24. ASSUME TypeOK, OpenProfile, FlowInv, ServerShown, TagsFail PROVE ServerShown'
  BY <1>24 DEF TagsFail, TagKeeps, SaveFailed, Rewrite
<1>25. ASSUME TypeOK, OpenProfile, FlowInv, ServerShown, CancelTags PROVE ServerShown'
  BY <1>25 DEF CancelTags, TagKeeps
<1>26. ASSUME TypeOK, OpenProfile, FlowInv, ServerShown, ShareSnapshot PROVE ServerShown'
  BY <1>26 DEF ShareSnapshot, SmbKeeps
<1>27. ASSUME TypeOK, OpenProfile, FlowInv, ServerShown, ShareStarts PROVE ServerShown'
  BY <1>27 DEF ShareStarts, SmbKeeps
<1>28. ASSUME TypeOK, OpenProfile, FlowInv, ServerShown, ShareFails PROVE ServerShown'
  BY <1>28 DEF ShareFails, SmbKeeps
<1>29. ASSUME TypeOK, OpenProfile, FlowInv, ServerShown, ShareStopped PROVE ServerShown'
  BY <1>29 DEF ShareStopped, SmbKeeps
<1>30. ASSUME TypeOK, OpenProfile, FlowInv, ServerShown, StopShare PROVE ServerShown'
  BY <1>30 DEF StopShare, SmbKeeps
<1>31. ASSUME TypeOK, OpenProfile, FlowInv, ServerShown, OfferUnlock PROVE ServerShown'
  BY <1>31 DEF OfferUnlock, UnlockFor, UnlockKeeps
<1>32. ASSUME TypeOK, OpenProfile, FlowInv, ServerShown, Unlocked PROVE ServerShown'
  BY <1>32 DEF Unlocked, UnlockReturnTo
<1>33. ASSUME TypeOK, OpenProfile, FlowInv, ServerShown, UnlockFails PROVE ServerShown'
  BY <1>33 DEF UnlockFails, UnlockKeeps
<1>34. ASSUME TypeOK, OpenProfile, FlowInv, ServerShown, CompareFirst PROVE ServerShown'
  BY <1>34 DEF CompareFirst, CompareKeeps
<1>35. ASSUME TypeOK, OpenProfile, FlowInv, ServerShown, CompareSecond PROVE ServerShown'
  BY <1>35 DEF CompareSecond, CompareKeeps
<1>36. ASSUME TypeOK, OpenProfile, FlowInv, ServerShown, Compared PROVE ServerShown'
  BY <1>36 DEF Compared, CompareKeeps
<1>37. ASSUME TypeOK, OpenProfile, FlowInv, ServerShown, CompareFails PROVE ServerShown'
  BY <1>37 DEF CompareFails, CompareKeeps
<1>38. ASSUME TypeOK, OpenProfile, FlowInv, ServerShown, CancelCompare PROVE ServerShown'
  BY <1>38 DEF CancelCompare, CompareKeeps
<1>39. ASSUME TypeOK, OpenProfile, FlowInv, ServerShown, OpenSnapshot PROVE ServerShown'
  BY <1>39 DEF OpenSnapshot, BrowseKeeps
<1>40. ASSUME TypeOK, OpenProfile, FlowInv, ServerShown, Opened PROVE ServerShown'
  BY <1>40 DEF Opened, Go, HomeKeeps
<1>41. ASSUME TypeOK, OpenProfile, FlowInv, ServerShown, ReopenSnapshot PROVE ServerShown'
  BY <1>41 DEF ReopenSnapshot, Go, HomeKeeps
<1>42. ASSUME TypeOK, OpenProfile, FlowInv, ServerShown, BrowseFails PROVE ServerShown'
  BY <1>42 DEF BrowseFails, BrowseKeeps
<1>43. ASSUME TypeOK, OpenProfile, FlowInv, ServerShown, CloseSnapshot PROVE ServerShown'
  BY <1>43 DEF CloseSnapshot, BrowseKeeps
<1>44. ASSUME TypeOK, OpenProfile, FlowInv, ServerShown, AskPrune PROVE ServerShown'
  BY <1>44 DEF AskPrune, Go, HomeKeeps
<1>45. ASSUME TypeOK, OpenProfile, FlowInv, ServerShown, ConfirmPrune PROVE ServerShown'
  BY <1>45 DEF ConfirmPrune, Go, HomeKeeps
<1>46. ASSUME TypeOK, OpenProfile, FlowInv, ServerShown, Pruned PROVE ServerShown'
  BY <1>46 DEF Pruned, Go, HomeKeeps
<1>47. ASSUME TypeOK, OpenProfile, FlowInv, ServerShown, LeavePrune PROVE ServerShown'
  BY <1>47 DEF LeavePrune, Go, HomeKeeps
<1>48. ASSUME TypeOK, OpenProfile, FlowInv, ServerShown, PruneFails PROVE ServerShown'
  BY <1>48 DEF PruneFails, BrowseKeeps
<1>49. ASSUME TypeOK, OpenProfile, FlowInv, ServerShown, OtherBackup PROVE ServerShown'
  BY <1>49 DEF OtherBackup, RepoOnly
<1>50. ASSUME TypeOK, OpenProfile, FlowInv, ServerShown, OtherForget PROVE ServerShown'
  BY <1>50 DEF OtherForget, RepoOnly
<1>51. ASSUME TypeOK, OpenProfile, FlowInv, ServerShown, Go({"SnapshotFilterDim"}, "Snapshots") PROVE ServerShown'
  BY <1>51 DEF Go, HomeKeeps
<1>52. ASSUME TypeOK, OpenProfile, FlowInv, ServerShown, Go({"SnapshotFilterValue"}, "SnapshotFilterDim") PROVE ServerShown'
  BY <1>52 DEF Go, HomeKeeps
<1>53. ASSUME TypeOK, OpenProfile, FlowInv, ServerShown, UNCHANGED vars PROVE ServerShown'
  BY <1>53 DEF vars
<1> QED
  BY <1>1, <1>2, <1>3, <1>4, <1>5, <1>6, <1>7, <1>8, <1>9, <1>10, <1>11, <1>12, <1>13,
    <1>14, <1>15, <1>16, <1>17, <1>18, <1>19, <1>20, <1>21, <1>22, <1>23, <1>24,
    <1>25, <1>26, <1>27, <1>28, <1>29, <1>30, <1>31, <1>32, <1>33, <1>34, <1>35,
    <1>36, <1>37, <1>38, <1>39, <1>40, <1>41, <1>42, <1>43, <1>44, <1>45, <1>46,
    <1>47, <1>48, <1>49, <1>50, <1>51, <1>52, <1>53 DEF Next, Loop, Esc, OtherKey,
    Environment

\* The server runs only on its screen, and serves what the screen names.
THEOREM ServersShown == Spec => []ServerShown
<1>1. Init => ServerShown
  BY DEF Init, ServerShown, NoShare
<1> QED
  BY <1>1, ServerStep, FlowsInvariant, TypeCorrect, PTL DEF Spec

----------------------------------------------------------------------------
(* The question before a deletion. *)

\* Both of what is asked and of what is shown.
AskInv == ConfirmedFirst /\ PreviewMatches

LEMMA AskStep == TypeOK /\ OpenProfile /\ FlowInv /\ AskInv /\ [Next]_vars => AskInv'
<1> USE DEF view, conf, list, repo, Show, Fail, TypeOK, FlowType, ViewType, NoneOr,
  FlowInv, FlowHasTarget, PairPicked, InUnlock, NoDelete, NoTagEdit, NoShare,
  NoHandle, NoCompare, DeleteScreens, TagScreens, SmbScreens, CompareScreens,
  BrowseScreens, AskInv, ConfirmedFirst, PreviewMatches
<1>1. ASSUME TypeOK, OpenProfile, FlowInv, AskInv, EditProfiles PROVE AskInv'
  BY <1>1 DEF EditProfiles, HomeKeeps
<1>2. ASSUME TypeOK, OpenProfile, FlowInv, AskInv, Activate PROVE AskInv'
  BY <1>2 DEF Activate, HomeKeeps
<1>3. ASSUME TypeOK, OpenProfile, FlowInv, AskInv, Loaded PROVE AskInv'
  BY <1>3 DEF Loaded, HomeKeeps
<1>4. ASSUME TypeOK, OpenProfile, FlowInv, AskInv, LoadingFails PROVE AskInv'
  BY <1>4 DEF LoadingFails, HomeKeeps
<1>5. ASSUME TypeOK, OpenProfile, FlowInv, AskInv, LeaveError PROVE AskInv'
  BY <1>5 DEF LeaveError, HomeKeeps
<1>6. ASSUME TypeOK, OpenProfile, FlowInv, AskInv, LeaveList PROVE AskInv'
  BY <1>6 DEF LeaveList, HomeKeeps
<1>7. ASSUME TypeOK, OpenProfile, FlowInv, AskInv, Reload PROVE AskInv'
  BY <1>7 DEF Reload, HomeKeeps
<1>8. ASSUME TypeOK, OpenProfile, FlowInv, AskInv, OpenFilter PROVE AskInv'
  BY <1>8 DEF OpenFilter, Go, HomeKeeps
<1>9. ASSUME TypeOK, OpenProfile, FlowInv, AskInv, PickKind PROVE AskInv'
  BY <1>9 DEF PickKind, Go, HomeKeeps
<1>10. ASSUME TypeOK, OpenProfile, FlowInv, AskInv, ClearFilter PROVE AskInv'
  BY <1>10 DEF ClearFilter, SetFilter, HomeKeeps
<1>11. ASSUME TypeOK, OpenProfile, FlowInv, AskInv, PickValue PROVE AskInv'
  BY <1>11 DEF PickValue, SetFilter, HomeKeeps
<1>12. ASSUME TypeOK, OpenProfile, FlowInv, AskInv, AskDelete PROVE AskInv'
  BY <1>12 DEF AskDelete, DeleteKeeps
<1>13. ASSUME TypeOK, OpenProfile, FlowInv, AskInv, Preview PROVE AskInv'
  BY <1>13 DEF Preview, DeleteKeeps
<1>14. ASSUME TypeOK, OpenProfile, FlowInv, AskInv, PreviewFails PROVE AskInv'
  BY <1>14 DEF PreviewFails, DeleteKeeps
<1>15. ASSUME TypeOK, OpenProfile, FlowInv, AskInv, LoadMore PROVE AskInv'
  BY <1>15 DEF LoadMore, DeleteKeeps
<1>16. ASSUME TypeOK, OpenProfile, FlowInv, AskInv, ConfirmDelete PROVE AskInv'
  BY <1>16 DEF ConfirmDelete, DeleteKeeps
<1>17. ASSUME TypeOK, OpenProfile, FlowInv, AskInv, Deleted PROVE AskInv'
  BY <1>17 DEF Deleted, DeleteKeeps
<1>18. ASSUME TypeOK, OpenProfile, FlowInv, AskInv, DeleteFails PROVE AskInv'
  BY <1>18 DEF DeleteFails, DeleteKeeps
<1>19. ASSUME TypeOK, OpenProfile, FlowInv, AskInv, CancelDelete PROVE AskInv'
  BY <1>19 DEF CancelDelete, DeleteKeeps
<1>20. ASSUME TypeOK, OpenProfile, FlowInv, AskInv, EditTags PROVE AskInv'
  BY <1>20 DEF EditTags, TagKeeps
<1>21. ASSUME TypeOK, OpenProfile, FlowInv, AskInv, EnterTags PROVE AskInv'
  BY <1>21 DEF EnterTags, TagKeeps
<1>22. ASSUME TypeOK, OpenProfile, FlowInv, AskInv, TagsUnchanged PROVE AskInv'
  BY <1>22 DEF TagsUnchanged, TagKeeps
<1>23. ASSUME TypeOK, OpenProfile, FlowInv, AskInv, TagsSaved PROVE AskInv'
  BY <1>23 DEF TagsSaved, TagKeeps, Rewrite
<1>24. ASSUME TypeOK, OpenProfile, FlowInv, AskInv, TagsFail PROVE AskInv'
  BY <1>24 DEF TagsFail, TagKeeps, SaveFailed, Rewrite
<1>25. ASSUME TypeOK, OpenProfile, FlowInv, AskInv, CancelTags PROVE AskInv'
  BY <1>25 DEF CancelTags, TagKeeps
<1>26. ASSUME TypeOK, OpenProfile, FlowInv, AskInv, ShareSnapshot PROVE AskInv'
  BY <1>26 DEF ShareSnapshot, SmbKeeps
<1>27. ASSUME TypeOK, OpenProfile, FlowInv, AskInv, ShareStarts PROVE AskInv'
  BY <1>27 DEF ShareStarts, SmbKeeps
<1>28. ASSUME TypeOK, OpenProfile, FlowInv, AskInv, ShareFails PROVE AskInv'
  BY <1>28 DEF ShareFails, SmbKeeps
<1>29. ASSUME TypeOK, OpenProfile, FlowInv, AskInv, ShareStopped PROVE AskInv'
  BY <1>29 DEF ShareStopped, SmbKeeps
<1>30. ASSUME TypeOK, OpenProfile, FlowInv, AskInv, StopShare PROVE AskInv'
  BY <1>30 DEF StopShare, SmbKeeps
<1>31. ASSUME TypeOK, OpenProfile, FlowInv, AskInv, OfferUnlock PROVE AskInv'
  BY <1>31 DEF OfferUnlock, UnlockFor, UnlockKeeps
<1>32. ASSUME TypeOK, OpenProfile, FlowInv, AskInv, Unlocked PROVE AskInv'
  BY <1>32 DEF Unlocked, UnlockReturnTo
<1>33. ASSUME TypeOK, OpenProfile, FlowInv, AskInv, UnlockFails PROVE AskInv'
  BY <1>33 DEF UnlockFails, UnlockKeeps
<1>34. ASSUME TypeOK, OpenProfile, FlowInv, AskInv, CompareFirst PROVE AskInv'
  BY <1>34 DEF CompareFirst, CompareKeeps
<1>35. ASSUME TypeOK, OpenProfile, FlowInv, AskInv, CompareSecond PROVE AskInv'
  BY <1>35 DEF CompareSecond, CompareKeeps
<1>36. ASSUME TypeOK, OpenProfile, FlowInv, AskInv, Compared PROVE AskInv'
  BY <1>36 DEF Compared, CompareKeeps
<1>37. ASSUME TypeOK, OpenProfile, FlowInv, AskInv, CompareFails PROVE AskInv'
  BY <1>37 DEF CompareFails, CompareKeeps
<1>38. ASSUME TypeOK, OpenProfile, FlowInv, AskInv, CancelCompare PROVE AskInv'
  BY <1>38 DEF CancelCompare, CompareKeeps
<1>39. ASSUME TypeOK, OpenProfile, FlowInv, AskInv, OpenSnapshot PROVE AskInv'
  BY <1>39 DEF OpenSnapshot, BrowseKeeps
<1>40. ASSUME TypeOK, OpenProfile, FlowInv, AskInv, Opened PROVE AskInv'
  BY <1>40 DEF Opened, Go, HomeKeeps
<1>41. ASSUME TypeOK, OpenProfile, FlowInv, AskInv, ReopenSnapshot PROVE AskInv'
  BY <1>41 DEF ReopenSnapshot, Go, HomeKeeps
<1>42. ASSUME TypeOK, OpenProfile, FlowInv, AskInv, BrowseFails PROVE AskInv'
  BY <1>42 DEF BrowseFails, BrowseKeeps
<1>43. ASSUME TypeOK, OpenProfile, FlowInv, AskInv, CloseSnapshot PROVE AskInv'
  BY <1>43 DEF CloseSnapshot, BrowseKeeps
<1>44. ASSUME TypeOK, OpenProfile, FlowInv, AskInv, AskPrune PROVE AskInv'
  BY <1>44 DEF AskPrune, Go, HomeKeeps
<1>45. ASSUME TypeOK, OpenProfile, FlowInv, AskInv, ConfirmPrune PROVE AskInv'
  BY <1>45 DEF ConfirmPrune, Go, HomeKeeps
<1>46. ASSUME TypeOK, OpenProfile, FlowInv, AskInv, Pruned PROVE AskInv'
  BY <1>46 DEF Pruned, Go, HomeKeeps
<1>47. ASSUME TypeOK, OpenProfile, FlowInv, AskInv, LeavePrune PROVE AskInv'
  BY <1>47 DEF LeavePrune, Go, HomeKeeps
<1>48. ASSUME TypeOK, OpenProfile, FlowInv, AskInv, PruneFails PROVE AskInv'
  BY <1>48 DEF PruneFails, BrowseKeeps
<1>49. ASSUME TypeOK, OpenProfile, FlowInv, AskInv, OtherBackup PROVE AskInv'
  BY <1>49 DEF OtherBackup, RepoOnly
<1>50. ASSUME TypeOK, OpenProfile, FlowInv, AskInv, OtherForget PROVE AskInv'
  BY <1>50 DEF OtherForget, RepoOnly
<1>51. ASSUME TypeOK, OpenProfile, FlowInv, AskInv, Go({"SnapshotFilterDim"}, "Snapshots") PROVE AskInv'
  BY <1>51 DEF Go, HomeKeeps
<1>52. ASSUME TypeOK, OpenProfile, FlowInv, AskInv, Go({"SnapshotFilterValue"}, "SnapshotFilterDim") PROVE AskInv'
  BY <1>52 DEF Go, HomeKeeps
<1>53. ASSUME TypeOK, OpenProfile, FlowInv, AskInv, UNCHANGED vars PROVE AskInv'
  BY <1>53 DEF vars
<1> QED
  BY <1>1, <1>2, <1>3, <1>4, <1>5, <1>6, <1>7, <1>8, <1>9, <1>10, <1>11, <1>12, <1>13,
    <1>14, <1>15, <1>16, <1>17, <1>18, <1>19, <1>20, <1>21, <1>22, <1>23, <1>24,
    <1>25, <1>26, <1>27, <1>28, <1>29, <1>30, <1>31, <1>32, <1>33, <1>34, <1>35,
    <1>36, <1>37, <1>38, <1>39, <1>40, <1>41, <1>42, <1>43, <1>44, <1>45, <1>46,
    <1>47, <1>48, <1>49, <1>50, <1>51, <1>52, <1>53 DEF Next, Loop, Esc, OtherKey,
    Environment

\* A deletion starts only on an answer to a question about this snapshot that
\* no earlier attempt has used, and the contents shown with it were its own.
THEOREM DeletionsConfirmed == Spec => []AskedRight
<1>1. Init => AskInv
  BY DEF Init, AskInv, ConfirmedFirst, PreviewMatches
<1>2. AskInv => AskedRight
  BY DEF AskInv, AskedRight
<1> QED
  BY <1>1, <1>2, AskStep, FlowsInvariant, TypeCorrect, PTL DEF Spec

----------------------------------------------------------------------------
(* What a flow works on belongs to the open profile. *)

\* The rows are the open profile's once they are loaded; so is what was taken
\* from them.
Own(i) == i # 0 => i \in 1..last /\ home[i] = active
OwnInv ==
  /\ screen \notin {"Home", "Loading", "Error"} => \A i \in snapshots : Own(i)
  /\ Own(delete.target) /\ Own(tag_edit.target) /\ Own(smb.id)
  /\ Own(compare.first) /\ Own(compare.second)
  /\ screen \in BrowseScreens => Own(browse)

LEMMA OwnStep == TypeOK /\ OpenProfile /\ FlowInv /\ OwnInv /\ [Next]_vars => OwnInv'
<1> USE DEF view, conf, list, repo, Show, Fail, TypeOK, RepoType, FlowInv,
  FlowHasTarget, PairPicked, InUnlock, NoDelete, NoTagEdit, NoShare, NoHandle,
  NoCompare, DeleteScreens, TagScreens, SmbScreens, CompareScreens, BrowseScreens,
  OpenProfile, OwnInv, Own
<1>1. ASSUME TypeOK, OpenProfile, FlowInv, OwnInv, EditProfiles PROVE OwnInv'
  BY <1>1 DEF EditProfiles, HomeKeeps
<1>2. ASSUME TypeOK, OpenProfile, FlowInv, OwnInv, Activate PROVE OwnInv'
  BY <1>2 DEF Activate, HomeKeeps
<1>3. ASSUME TypeOK, OpenProfile, FlowInv, OwnInv, Loaded PROVE OwnInv'
  BY <1>3, Rows DEF Loaded, HomeKeeps
<1>4. ASSUME TypeOK, OpenProfile, FlowInv, OwnInv, LoadingFails PROVE OwnInv'
  BY <1>4 DEF LoadingFails, HomeKeeps
<1>5. ASSUME TypeOK, OpenProfile, FlowInv, OwnInv, LeaveError PROVE OwnInv'
  BY <1>5 DEF LeaveError, HomeKeeps
<1>6. ASSUME TypeOK, OpenProfile, FlowInv, OwnInv, LeaveList PROVE OwnInv'
  BY <1>6 DEF LeaveList, HomeKeeps
<1>7. ASSUME TypeOK, OpenProfile, FlowInv, OwnInv, Reload PROVE OwnInv'
  BY <1>7 DEF Reload, HomeKeeps
<1>8. ASSUME TypeOK, OpenProfile, FlowInv, OwnInv, OpenFilter PROVE OwnInv'
  BY <1>8 DEF OpenFilter, Go, HomeKeeps
<1>9. ASSUME TypeOK, OpenProfile, FlowInv, OwnInv, PickKind PROVE OwnInv'
  BY <1>9 DEF PickKind, Go, HomeKeeps
<1>10. ASSUME TypeOK, OpenProfile, FlowInv, OwnInv, ClearFilter PROVE OwnInv'
  BY <1>10 DEF ClearFilter, SetFilter, HomeKeeps
<1>11. ASSUME TypeOK, OpenProfile, FlowInv, OwnInv, PickValue PROVE OwnInv'
  BY <1>11 DEF PickValue, SetFilter, HomeKeeps
<1>12. ASSUME TypeOK, OpenProfile, FlowInv, OwnInv, AskDelete PROVE OwnInv'
  BY <1>12, Rows DEF AskDelete, DeleteKeeps, Visible
<1>13. ASSUME TypeOK, OpenProfile, FlowInv, OwnInv, Preview PROVE OwnInv'
  BY <1>13 DEF Preview, DeleteKeeps
<1>14. ASSUME TypeOK, OpenProfile, FlowInv, OwnInv, PreviewFails PROVE OwnInv'
  BY <1>14 DEF PreviewFails, DeleteKeeps
<1>15. ASSUME TypeOK, OpenProfile, FlowInv, OwnInv, LoadMore PROVE OwnInv'
  BY <1>15 DEF LoadMore, DeleteKeeps
<1>16. ASSUME TypeOK, OpenProfile, FlowInv, OwnInv, ConfirmDelete PROVE OwnInv'
  BY <1>16 DEF ConfirmDelete, DeleteKeeps
<1>17. ASSUME TypeOK, OpenProfile, FlowInv, OwnInv, Deleted PROVE OwnInv'
  BY <1>17 DEF Deleted, DeleteKeeps
<1>18. ASSUME TypeOK, OpenProfile, FlowInv, OwnInv, DeleteFails PROVE OwnInv'
  BY <1>18 DEF DeleteFails, DeleteKeeps
<1>19. ASSUME TypeOK, OpenProfile, FlowInv, OwnInv, CancelDelete PROVE OwnInv'
  BY <1>19 DEF CancelDelete, DeleteKeeps
<1>20. ASSUME TypeOK, OpenProfile, FlowInv, OwnInv, EditTags PROVE OwnInv'
  BY <1>20, Rows DEF EditTags, TagKeeps, Visible
<1>21. ASSUME TypeOK, OpenProfile, FlowInv, OwnInv, EnterTags PROVE OwnInv'
  BY <1>21 DEF EnterTags, TagKeeps
<1>22. ASSUME TypeOK, OpenProfile, FlowInv, OwnInv, TagsUnchanged PROVE OwnInv'
  BY <1>22 DEF TagsUnchanged, TagKeeps
<1>23. ASSUME TypeOK, OpenProfile, FlowInv, OwnInv, TagsSaved PROVE OwnInv'
  <2>1. there \ {tag_edit.target} \in SUBSET there /\ tag_edit.target # 0
    BY <1>23 DEF TagsSaved, Savable
  <2>2. Rewrite(there \ {tag_edit.target})
    BY <1>23 DEF TagsSaved
  <2>3. \A i \in 1..last : home'[i] = home[i] /\ i \in 1..last'
    BY <1>23, <2>1, <2>2, Rewritten
  <2> QED
    BY <1>23, <2>3 DEF TagsSaved, TagKeeps
<1>24. ASSUME TypeOK, OpenProfile, FlowInv, OwnInv, TagsFail PROVE OwnInv'
  <2>1. CASE UNCHANGED repo
    BY <1>24, <2>1 DEF TagsFail, TagKeeps
  <2>2. CASE ~UNCHANGED repo
    <3>1. PICK old \in SUBSET there : Rewrite(old)
      BY <1>24, <2>2 DEF TagsFail, SaveFailed
    <3>2. tag_edit.target # 0
      BY <1>24, <2>2 DEF TagsFail, Savable
    <3>3. \A i \in 1..last : home'[i] = home[i] /\ i \in 1..last'
      BY <1>24, <3>1, <3>2, Rewritten
    <3> QED
      BY <1>24, <3>3 DEF TagsFail, TagKeeps
  <2> QED
    BY <2>1, <2>2
<1>25. ASSUME TypeOK, OpenProfile, FlowInv, OwnInv, CancelTags PROVE OwnInv'
  BY <1>25 DEF CancelTags, TagKeeps
<1>26. ASSUME TypeOK, OpenProfile, FlowInv, OwnInv, ShareSnapshot PROVE OwnInv'
  BY <1>26, Rows DEF ShareSnapshot, SmbKeeps, Visible
<1>27. ASSUME TypeOK, OpenProfile, FlowInv, OwnInv, ShareStarts PROVE OwnInv'
  BY <1>27 DEF ShareStarts, SmbKeeps
<1>28. ASSUME TypeOK, OpenProfile, FlowInv, OwnInv, ShareFails PROVE OwnInv'
  <2>1. smb'.id = smb.id
    BY <1>28 DEF ShareFails, FlowType
  <2> QED
    BY <1>28, <2>1 DEF ShareFails, SmbKeeps
<1>29. ASSUME TypeOK, OpenProfile, FlowInv, OwnInv, ShareStopped PROVE OwnInv'
  BY <1>29 DEF ShareStopped, SmbKeeps
<1>30. ASSUME TypeOK, OpenProfile, FlowInv, OwnInv, StopShare PROVE OwnInv'
  BY <1>30 DEF StopShare, SmbKeeps
<1>31. ASSUME TypeOK, OpenProfile, FlowInv, OwnInv, OfferUnlock PROVE OwnInv'
  BY <1>31 DEF OfferUnlock, UnlockFor, UnlockKeeps
<1>32. ASSUME TypeOK, OpenProfile, FlowInv, OwnInv, Unlocked PROVE OwnInv'
  <2>1. delete'.target = delete.target
    BY <1>32 DEF Unlocked, FlowType
  <2>2. UNCHANGED <<conf, list, tag_edit, smb, compare, browse, repo>>
    BY <1>32 DEF Unlocked, UnlockReturnTo
  <2>3. screen = "Unlocking" /\ screen' \notin BrowseScreens
    BY <1>32 DEF Unlocked, UnlockReturnTo
  <2> QED
    BY <1>32, <2>1, <2>2, <2>3
<1>33. ASSUME TypeOK, OpenProfile, FlowInv, OwnInv, UnlockFails PROVE OwnInv'
  <2>1. smb'.id = smb.id
    BY <1>33 DEF UnlockFails, FlowType
  <2>2. UNCHANGED <<conf, list, delete, tag_edit, compare, browse, repo>>
    BY <1>33 DEF UnlockFails, UnlockKeeps
  <2>3. screen = "Unlocking" /\ screen' \notin BrowseScreens
    BY <1>33 DEF UnlockFails
  <2> QED
    BY <1>33, <2>1, <2>2, <2>3
<1>34. ASSUME TypeOK, OpenProfile, FlowInv, OwnInv, CompareFirst PROVE OwnInv'
  BY <1>34, Rows DEF CompareFirst, CompareKeeps, Visible
<1>35. ASSUME TypeOK, OpenProfile, FlowInv, OwnInv, CompareSecond PROVE OwnInv'
  BY <1>35, Rows DEF CompareSecond, CompareKeeps, Visible
<1>36. ASSUME TypeOK, OpenProfile, FlowInv, OwnInv, Compared PROVE OwnInv'
  BY <1>36 DEF Compared, CompareKeeps
<1>37. ASSUME TypeOK, OpenProfile, FlowInv, OwnInv, CompareFails PROVE OwnInv'
  BY <1>37 DEF CompareFails, CompareKeeps
<1>38. ASSUME TypeOK, OpenProfile, FlowInv, OwnInv, CancelCompare PROVE OwnInv'
  BY <1>38 DEF CancelCompare, CompareKeeps
<1>39. ASSUME TypeOK, OpenProfile, FlowInv, OwnInv, OpenSnapshot PROVE OwnInv'
  BY <1>39, Rows DEF OpenSnapshot, BrowseKeeps, Visible
<1>40. ASSUME TypeOK, OpenProfile, FlowInv, OwnInv, Opened PROVE OwnInv'
  BY <1>40 DEF Opened, Go, HomeKeeps
<1>41. ASSUME TypeOK, OpenProfile, FlowInv, OwnInv, ReopenSnapshot PROVE OwnInv'
  BY <1>41 DEF ReopenSnapshot, Go, HomeKeeps
<1>42. ASSUME TypeOK, OpenProfile, FlowInv, OwnInv, BrowseFails PROVE OwnInv'
  BY <1>42 DEF BrowseFails, BrowseKeeps
<1>43. ASSUME TypeOK, OpenProfile, FlowInv, OwnInv, CloseSnapshot PROVE OwnInv'
  BY <1>43 DEF CloseSnapshot, BrowseKeeps
<1>44. ASSUME TypeOK, OpenProfile, FlowInv, OwnInv, AskPrune PROVE OwnInv'
  BY <1>44 DEF AskPrune, Go, HomeKeeps
<1>45. ASSUME TypeOK, OpenProfile, FlowInv, OwnInv, ConfirmPrune PROVE OwnInv'
  BY <1>45 DEF ConfirmPrune, Go, HomeKeeps
<1>46. ASSUME TypeOK, OpenProfile, FlowInv, OwnInv, Pruned PROVE OwnInv'
  BY <1>46 DEF Pruned, Go, HomeKeeps
<1>47. ASSUME TypeOK, OpenProfile, FlowInv, OwnInv, LeavePrune PROVE OwnInv'
  BY <1>47 DEF LeavePrune, Go, HomeKeeps
<1>48. ASSUME TypeOK, OpenProfile, FlowInv, OwnInv, PruneFails PROVE OwnInv'
  BY <1>48 DEF PruneFails, BrowseKeeps
<1>49. ASSUME TypeOK, OpenProfile, FlowInv, OwnInv, OtherBackup PROVE OwnInv'
  BY <1>49, Rows DEF OtherBackup, RepoOnly
<1>50. ASSUME TypeOK, OpenProfile, FlowInv, OwnInv, OtherForget PROVE OwnInv'
  BY <1>50 DEF OtherForget, RepoOnly
<1>51. ASSUME TypeOK, OpenProfile, FlowInv, OwnInv, Go({"SnapshotFilterDim"}, "Snapshots") PROVE OwnInv'
  BY <1>51 DEF Go, HomeKeeps
<1>52. ASSUME TypeOK, OpenProfile, FlowInv, OwnInv, Go({"SnapshotFilterValue"}, "SnapshotFilterDim") PROVE OwnInv'
  BY <1>52 DEF Go, HomeKeeps
<1>53. ASSUME TypeOK, OpenProfile, FlowInv, OwnInv, UNCHANGED vars PROVE OwnInv'
  BY <1>53 DEF vars
<1> QED
  BY <1>1, <1>2, <1>3, <1>4, <1>5, <1>6, <1>7, <1>8, <1>9, <1>10, <1>11, <1>12, <1>13,
    <1>14, <1>15, <1>16, <1>17, <1>18, <1>19, <1>20, <1>21, <1>22, <1>23, <1>24,
    <1>25, <1>26, <1>27, <1>28, <1>29, <1>30, <1>31, <1>32, <1>33, <1>34, <1>35,
    <1>36, <1>37, <1>38, <1>39, <1>40, <1>41, <1>42, <1>43, <1>44, <1>45, <1>46,
    <1>47, <1>48, <1>49, <1>50, <1>51, <1>52, <1>53 DEF Next, Loop, Esc, OtherKey,
    Environment

\* No flow works on a snapshot of another profile than the one on screen.
THEOREM OwnRepositories == Spec => []OwnRepository
<1>1. Init => OwnInv
  BY DEF Init, OwnInv, Own, NoDelete, NoTagEdit, NoShare, NoCompare, BrowseScreens
<1>2. FlowInv /\ OpenProfile /\ OwnInv => OwnRepository
  <2>1. FlowInv /\ screen = "Home" => ActedOn = {}
    BY DEF FlowInv, FlowHasTarget, PairPicked, InUnlock, ActedOn, DeleteScreens,
      TagScreens, SmbScreens, CompareScreens, BrowseScreens
  <2> QED
    BY <2>1 DEF OpenProfile, OwnInv, Own, ActedOn, OwnRepository
<1> QED
  BY <1>1, <1>2, OwnStep, FlowsInvariant, TypeCorrect, PTL DEF Spec

=============================================================================
