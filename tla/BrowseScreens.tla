---------------------------- MODULE BrowseScreens ----------------------------
(***************************************************************************)
(* Browsing a snapshot in the TUI: the stack of directories, the details   *)
(* of a file and its share (src/app.rs, the main loop and open_and_walk in *)
(* src/main.rs, get_file_details in src/repo.rs), with the server of       *)
(* ShareServer started and stopped by the share screen.                    *)
(*                                                                         *)
(* A tree is a sequence of nodes in the repository's order.  Screens show  *)
(* and look up nodes by their displayed name, which is lossy: bytes that   *)
(* are not UTF-8 are replaced, so two nodes may have one name.  The cursor *)
(* can be on any row.  Options are sets of at most one element.            *)
(***************************************************************************)
EXTENDS ShareServer

CONSTANTS
  Snapshot,  \* the snapshots of the list
  NoSnapshot,
  Tree,      \* tree blobs
  Root,      \* Root[s]: the tree of snapshot s
  Nodes      \* Nodes[t]: the nodes of a tree: [name, kind, subtree]

Node == UNION {{<<t, i>> : i \in DOMAIN Nodes[t]} : t \in Tree}
At(n) == Nodes[n[1]][n[2]]
Rows(t) == {<<t, i>> : i \in DOMAIN Nodes[t]}
IsDir(n) == At(n).kind = "Dir"
Name == {At(n).name : n \in Node}

ASSUME BrowseConstants ==
  /\ NoSnapshot \notin Snapshot
  /\ Root \in [Snapshot -> Tree]
  /\ \A t \in Tree : Len(Nodes[t]) \in Nat /\ DOMAIN Nodes[t] = 1..Len(Nodes[t])
  /\ \A n \in Node : IsDir(n) => At(n).subtree \in Tree
  /\ Target = [snap : Snapshot, tree : Tree, name : Name]

VARIABLES
  screen,    \* App.screen, "Elsewhere" for those of other modules
  snapshot,  \* browse_snapshot_id
  session,   \* repo_session is there
  stack,     \* browse_stack: frames [name, tree]
  descend,   \* pending_descend
  refresh,   \* pending_refresh_path
  lookup,    \* pending_file_lookup
  details,   \* file_details: the node shown, with its path
  target,    \* share_target
  chosen,    \* the node whose details were last asked for
  trees      \* the trees of the stack when a refresh was last asked for

browse == <<snapshot, session, stack, descend, refresh>>
file == <<lookup, details, target, chosen>>
screenVars == <<screen, browse, file, trees>>
vars == <<screenVars, serverVars>>

Top == stack[Len(stack)]
Frame(n) == [name |-> At(n).name, tree |-> At(n).subtree]
RootFrame(s) == [name |-> "", tree |-> Root[s]]
Path == [k \in 1..Len(stack) - 1 |-> stack[k + 1].name]

Init ==
  /\ screen = "Elsewhere" /\ snapshot = NoSnapshot /\ session = FALSE
  /\ stack = <<>> /\ descend = {} /\ refresh = {}
  /\ lookup = {} /\ details = {} /\ target = {}
  /\ chosen = {} /\ trees = <<>>
  /\ ServerInit

----------------------------------------------------------------------------
(* Opening and walking. *)

\* activate_selected_snapshot, on the list of snapshots.
OpenSnapshot ==
  /\ screen = "Elsewhere"
  /\ snapshot' \in Snapshot
  /\ refresh' = {}
  /\ screen' = "OpeningSnapshot"
  /\ UNCHANGED <<session, stack, descend, file, trees, serverVars>>

\* The first of the nodes that satisfy a condition, or none.
FirstOf(S) == {n \in S : \A m \in S : n[2] <= m[2]}

\* The loop over a path: each name is that of a directory on the top, or it ends.
WalkStep(st, name) ==
  LET next == IF st.over THEN {}
              ELSE FirstOf({n \in Rows(st.stack[Len(st.stack)].tree) :
                              At(n).name = name /\ IsDir(n)})
  IN IF next = {} THEN [st EXCEPT !.over = TRUE]
     ELSE [st EXCEPT !.stack = Append(@, Frame(CHOOSE n \in next : TRUE))]

Walk(s, path) ==
  LET after[k \in 0..Len(path)] ==
        IF k = 0 THEN [stack |-> <<RootFrame(s)>>, over |-> FALSE]
        ELSE WalkStep(after[k - 1], path[k])
  IN after[Len(path)].stack

NoStack == session' = FALSE /\ stack' = <<>>

\* open_and_walk; any read may fail.
OpeningSnapshot ==
  /\ screen = "OpeningSnapshot"
  /\ refresh' = {}
  /\ \/ /\ session' = TRUE
        /\ stack' = Walk(snapshot, IF refresh = {} THEN <<>>
                                   ELSE CHOOSE p \in refresh : TRUE)
        /\ screen' = "SnapshotContents"
     \/ NoStack /\ screen' = "Error"
  /\ UNCHANGED <<snapshot, descend, file, trees, serverVars>>

\* Enter on a directory.
Descend ==
  /\ screen = "SnapshotContents"
  /\ \E n \in Rows(Top.tree) : IsDir(n) /\ descend' = {Frame(n)}
  /\ screen' = "LoadingDir"
  /\ UNCHANGED <<snapshot, session, stack, refresh, file, trees, serverVars>>

LoadingDir ==
  /\ screen = "LoadingDir"
  /\ descend' = {}
  /\ \/ /\ descend = {} /\ screen' = "SnapshotContents" /\ UNCHANGED <<session, stack>>
     \/ /\ descend # {} /\ session
        /\ \/ \E f \in descend : /\ stack' = Append(stack, f)
                                 /\ screen' = "SnapshotContents"
                                 /\ UNCHANGED session
           \/ NoStack /\ screen' = "Error"
     \/ descend # {} /\ ~session /\ screen' = "Error" /\ UNCHANGED <<session, stack>>
  /\ UNCHANGED <<snapshot, refresh, file, trees, serverVars>>

CloseSnapshot ==
  /\ NoStack
  /\ snapshot' = NoSnapshot /\ descend' = {} /\ refresh' = {}
  /\ screen' = "Elsewhere"

\* go_up: Backspace, or Enter on `..`.
GoUp ==
  /\ screen = "SnapshotContents"
  /\ \/ /\ Len(stack) > 1
        /\ stack' = SubSeq(stack, 1, Len(stack) - 1)
        /\ UNCHANGED <<screen, snapshot, session, descend, refresh>>
     \/ Len(stack) <= 1 /\ CloseSnapshot
  /\ UNCHANGED <<file, trees, serverVars>>

Leave ==
  /\ screen = "SnapshotContents"
  /\ CloseSnapshot
  /\ UNCHANGED <<file, trees, serverVars>>

\* Mutant of Refresh: the root's empty name is part of the path.
RefreshFromRoot ==
  /\ screen = "SnapshotContents"
  /\ refresh' = {[k \in 1..Len(stack) |-> stack[k].name]}
  /\ trees' = [k \in 1..Len(stack) |-> stack[k].tree]
  /\ NoStack /\ descend' = {}
  /\ screen' = "OpeningSnapshot"
  /\ UNCHANGED <<snapshot, file, serverVars>>

\* `r` opens the repository again and walks back by the names.
Refresh ==
  /\ screen = "SnapshotContents"
  /\ refresh' = {Path}
  /\ trees' = [k \in 1..Len(stack) |-> stack[k].tree]
  /\ NoStack /\ descend' = {}
  /\ screen' = "OpeningSnapshot"
  /\ UNCHANGED <<snapshot, file, serverVars>>

\* Any key on an error leads home, and from there to the list again.
DismissError ==
  /\ screen = "Error"
  /\ screen' = "Elsewhere"
  /\ UNCHANGED <<browse, file, trees, serverVars>>

----------------------------------------------------------------------------
(* Details and share of one file. *)
TargetOf(n) == [snap |-> snapshot, tree |-> n[1], name |-> At(n).name]

\* Mutant of OpenFile: the target of a share is kept while there is one.
OpenFileKeepsTarget ==
  /\ screen = "SnapshotContents"
  /\ \E n \in Rows(Top.tree) :
       /\ ~IsDir(n)
       /\ target' = IF target = {} THEN {TargetOf(n)} ELSE target
       /\ lookup' = {[tree |-> n[1], name |-> At(n).name,
                      path |-> Append(Path, At(n).name)]}
       /\ chosen' = {[node |-> n, path |-> Append(Path, At(n).name)]}
  /\ screen' = "LoadingFileDetails"
  /\ UNCHANGED <<browse, details, trees, serverVars>>

\* open_selected_file_details
OpenFile ==
  /\ screen = "SnapshotContents"
  /\ \E n \in Rows(Top.tree) :
       /\ ~IsDir(n)
       /\ target' = {TargetOf(n)}
       /\ lookup' = {[tree |-> n[1], name |-> At(n).name,
                      path |-> Append(Path, At(n).name)]}
       /\ chosen' = {[node |-> n, path |-> Append(Path, At(n).name)]}
  /\ screen' = "LoadingFileDetails"
  /\ UNCHANGED <<browse, details, trees, serverVars>>

\* The node of a name, of whatever kind: the first in the tree's order.
Find(t, name) == FirstOf({n \in Rows(t) : At(n).name = name})

\* get_file_details; reading the tree may fail.
LoadingFileDetails ==
  /\ screen = "LoadingFileDetails"
  /\ lookup' = {}
  /\ \/ /\ lookup = {} /\ screen' = "SnapshotContents" /\ UNCHANGED details
     \/ /\ session
        /\ \E l \in lookup, n \in Node :
             /\ n \in Find(l.tree, l.name)
             /\ details' = {[node |-> n, path |-> l.path]}
        /\ screen' = "FileDetails"
     \/ lookup # {} /\ screen' = "Error" /\ UNCHANGED details
  /\ UNCHANGED <<browse, target, chosen, trees, serverVars>>

\* Esc on the details; stop_share finds no server here.
LeaveDetails ==
  /\ screen = "FileDetails"
  /\ target' = {} /\ details' = {}
  /\ screen' = "SnapshotContents"
  /\ UNCHANGED <<browse, lookup, chosen, trees, serverVars>>

\* `s` on a file: start_share_server, whose error is shown on the screen.
Share ==
  /\ screen = "FileDetails"
  /\ \E d \in details : At(d.node).kind = "File"
  /\ \E t \in target : StartServer(t) \/ UNCHANGED serverVars
  /\ screen' = "ShareUrl"
  /\ UNCHANGED <<browse, file, trees>>

\* Esc on the share: stop_share_keep_target.  The main thread waits in `stop`
\* until the thread is joined.
Unshare ==
  /\ screen = "ShareUrl"
  /\ \/ main = "running" /\ StopServer /\ UNCHANGED screenVars
     \/ main = "joining" /\ Joined /\ screen' = "FileDetails"
                         /\ UNCHANGED <<browse, file, trees>>
     \/ main = "free" /\ screen' = "FileDetails"
                      /\ UNCHANGED <<browse, file, trees, serverVars>>

----------------------------------------------------------------------------
ScreenStep ==
  \/ OpenSnapshot \/ OpeningSnapshot \/ Descend \/ LoadingDir \/ GoUp \/ Leave
  \/ Refresh \/ DismissError
  \/ OpenFile \/ LoadingFileDetails \/ LeaveDetails \/ Share \/ Unshare

Next == ScreenStep \/ (ServerStep /\ UNCHANGED screenVars)

\* The join of a stopped server goes on by itself; the other keys need a user.
Spec == Init /\ [][Next]_vars /\ ServerFairness
             /\ WF_vars(Unshare /\ main = "joining")

----------------------------------------------------------------------------
(* Properties. *)
IsOption(v, S) == v \subseteq S /\ \A x, y \in v : x = y
Frames == [name : Name \cup {""}, tree : Tree]

\* Types, and the channel never holds more than its capacity.
TypeOK ==
  /\ ServerType
  /\ screen \in {"Elsewhere", "OpeningSnapshot", "SnapshotContents", "LoadingDir",
                 "LoadingFileDetails", "FileDetails", "ShareUrl", "Error"}
  /\ snapshot \in Snapshot \cup {NoSnapshot}
  /\ session \in BOOLEAN
  /\ stack \in Seq(Frames) /\ IsOption(descend, Frames)
  /\ IsOption(refresh, Seq(Name))
  /\ IsOption(target, Target)
  /\ IsOption(chosen, [node : Node, path : Seq(Name)])
  /\ IsOption(details, [node : Node, path : Seq(Name)])
  /\ IsOption(lookup, [tree : Tree, name : Name, path : Seq(Name)])
  /\ trees \in Seq(Tree)

\* The stack on the screen is a path of the snapshot that is open: it starts at
\* its root, and each frame is a directory of the one below under its name.
Inside == {"SnapshotContents", "LoadingDir", "LoadingFileDetails", "FileDetails",
           "ShareUrl"}
StackIsPath ==
  screen \in Inside =>
    /\ session /\ snapshot # NoSnapshot
    /\ stack # <<>> /\ stack[1] = RootFrame(snapshot)
    /\ \A k \in 2..Len(stack) :
         \E n \in Rows(stack[k - 1].tree) : IsDir(n) /\ stack[k] = Frame(n)

\* A refresh that opens the repository again comes back to the directory it was
\* asked in.
RefreshStays ==
  [][screen = "OpeningSnapshot" /\ refresh # {} /\ screen' = "SnapshotContents"
       => [k \in 1..Len(stack') |-> stack'[k].tree] = trees]_vars

\* The details on the screen, and the file a server is bound to, are those of the
\* row Enter was pressed on.
DetailsOfRow ==
  /\ screen \in {"FileDetails", "ShareUrl"} => details = chosen
  /\ main # "free" => \E d \in details : d.node \in Find(bound.tree, bound.name)

\* So what is on the screen is where the user went.
ShowsChosen == StackIsPath /\ DetailsOfRow

\* What a client is sent is the file of the link it asked by, in order and while
\* the link had not expired; a response that ends without an error is the whole
\* file.
ServesBound ==
  \A c \in Conn : conn[c].status = 200 =>
    /\ conn[c].link.target = bound /\ conn[c].at <= conn[c].link.exp
    /\ \E k \in 0..Blobs : conn[c].got = [i \in 1..k |-> i]
    /\ conn[c].state = "open" => Len(conn[c].got) = Blobs

\* Off the share screen there is no server, no connection and no reader left.
QuietOffScreen ==
  screen # "ShareUrl" =>
    /\ main = "free" /\ thread = "none"
    /\ \A c \in Conn : conn[c] = Closed /\ readers[c] = NoReader

\* Leaving the share ends, however slow a client is; and a reader whose client is
\* gone ends.
ServerEnds ==
  /\ main = "joining" ~> main = "free"
  /\ \A c \in Conn : conn[c] = Closed /\ readers[c] # NoReader ~> readers[c] = NoReader
=============================================================================
