---------------------------- MODULE OverlayMerge ----------------------------
(***************************************************************************)
(* How a bake's upper is merged into its lower (internal/merge; called by  *)
(* the merge helper of internal/enode under the lower's exclusive lock).   *)
(*                                                                         *)
(* The walk takes the entries of a folder in the order of their names and  *)
(* turns each into calls of the file system. It may end after any call -   *)
(* the helper dies, a call fails - and is then started again from the      *)
(* beginning, with nothing remembered but what is on the disk.             *)
(*                                                                         *)
(* A tree is a function from paths to entries. What an entry holds is told *)
(* apart only by the side it comes from. Left out: the extended attributes *)
(* of a folder that both sides have, which are not carried over, and the   *)
(* modification time of the roots.                                         *)
(***************************************************************************)
EXTENDS Integers, Sequences, SequencesExt

CONSTANTS
    Order,      \* the names, in the order of their bytes
    Paths,      \* sequences of names: a path with all the paths above it
    Roots,      \* what the check before the start may find of the three roots
    MaxStops    \* bound: how often the merge is stopped midway

VARIABLES
    upper,      \* the pending upper
    lower,      \* the lower
    trash,      \* what was discarded: sets of entries by path
    roots,      \* the three roots: [abs, dir, apart, fs, mnt]
    phase,      \* idle, walking, done, refused, failed
    frames,     \* folders the walk is in: at, rest (names to come), mtime
    calls,      \* calls left for the entry at hand
    stops       \* times it was stopped

vars == <<upper, lower, trash, roots, phase, frames, calls, stops>>
disk == <<upper, lower, trash>>

Sides == {"upper", "lower", "merge"}
Kinds == {"absent", "other", "dir", "opaque", "whiteout", "marked"}
IsDir(e) == e.kind \in {"dir", "opaque"}
Entry(kind, side) ==
    LET e == [kind |-> kind, body |-> side, owner |-> side, mode |-> side, mtime |-> side, stash |-> "none"]
    IN  IF IsDir(e) THEN [e EXCEPT !.body = "none"] ELSE e
Absent == Entry("absent", "merge")

Above(p) == {SubSeq(p, 1, n) : n \in 1..(Len(p) - 1)}
Under(p) == {q \in Paths : IsPrefix(p, q)}
Parent(p) == Front(p)
ReadNames(tree, at) == SelectSeq(Order, LAMBDA n : Append(at, n) \in Paths /\ tree[Append(at, n)] # Absent)

\* Whatever comes into or goes out of a folder changes its modification time.
Touched(tree, p) ==
    IF p = <<>> THEN tree ELSE [tree EXCEPT ![p].mtime = "merge"]

Removed(tree, p) == Touched([q \in Paths |-> IF q \in Under(p) THEN Absent ELSE tree[q]], Parent(p))
Grafted(tree, from, p) ==
    Touched([q \in Paths |-> IF q \in Under(p) THEN from[q] ELSE tree[q]], Parent(p))

-----------------------------------------------------------------------------
(* The table.                                                              *)

There(p) == lower[p] # Absent

First(p) == IF There(p) THEN <<"discard">> ELSE <<>>

\* Slip: the mark goes before what it hides.
MarkFirst(p) == <<"clear">> \o First(p) \o <<"move">>

OpaqueCalls(p) == First(p) \o <<"clear", "move">>

\* A folder both sides have is gone into, its time once put aside.
FolderCalls(p) ==
    IF ~IsDir(lower[p]) THEN First(p) \o <<"move">>
    ELSE IF upper[p].stash = "none" THEN <<"stash", "enter">> ELSE <<"enter">>

Decide(p) ==
    CASE upper[p].kind = "whiteout" -> First(p) \o <<"unlink">>
      [] upper[p].kind = "opaque"   -> OpaqueCalls(p)
      [] upper[p].kind = "dir"      -> FolderCalls(p)
      [] upper[p].kind = "other"    -> IF IsDir(lower[p]) THEN <<"discard", "replace">> ELSE <<"replace">>

\* What is to be done when the folder has been walked.
Leaving == <<"chown", "chmod", "chtimes", "rmdir">>

-----------------------------------------------------------------------------
(* The check before the start. Its first finding is its answer.            *)

Marked == \E p \in Paths : upper[p].kind = "marked"
Refused == ~roots.abs \/ ~roots.dir \/ ~roots.apart \/ ~roots.fs \/ ~roots.mnt \/ Marked

Preflight ==
    /\ phase = "idle"
    /\ Refused
    /\ phase' = "refused"
    /\ UNCHANGED <<disk, roots, frames, calls, stops>>

Apply ==
    /\ phase = "idle"
    /\ ~Refused
    /\ phase' = "walking"
    /\ frames' = <<[at |-> <<>>, rest |-> ReadNames(upper, <<>>), mtime |-> "merge"]>>
    /\ calls' = <<>>
    /\ UNCHANGED <<disk, roots, stops>>

-----------------------------------------------------------------------------
(* The walk. The last frame is the folder it is in.                        *)

Frame == Last(frames)
Item == Append(Frame.at, Head(Frame.rest))
Dropped == [frames EXCEPT ![Len(frames)].rest = Tail(@)]

\* Looks at the next entry, on both sides.
Look ==
    /\ phase = "walking" /\ calls = <<>> /\ Frame.rest # <<>>
    /\ calls' = Decide(Item)
    /\ UNCHANGED <<disk, roots, phase, frames, stops>>

\* The folder is walked; its own attributes are to be set, or all is done.
Walked ==
    /\ phase = "walking" /\ calls = <<>> /\ Frame.rest = <<>>
    /\ IF Len(frames) > 1
       THEN /\ calls' = Leaving
            /\ UNCHANGED phase
       ELSE /\ phase' = IF ReadNames(upper, <<>>) = <<>> THEN "done" ELSE "failed"
            /\ UNCHANGED calls
    /\ UNCHANGED <<disk, roots, frames, stops>>

\* The call at hand, on entry p. It is the last one of its entry or not.
Call(c) == phase = "walking" /\ calls # <<>> /\ Head(calls) = c
Called == calls' = Tail(calls) /\ UNCHANGED <<roots, phase, frames, stops>>
ItemDone ==
    /\ frames' = Dropped
    /\ calls' = <<>>
    /\ UNCHANGED <<roots, phase, stops>>
Failing ==
    /\ phase' = "failed"
    /\ UNCHANGED <<disk, roots, frames, calls, stops>>

Discard ==
    /\ Call("discard")
    /\ trash' = trash \cup {[q \in Under(Item) |-> lower[q]]}
    /\ lower' = Removed(lower, Item)
    /\ UNCHANGED upper
    /\ Called

Unlink ==
    /\ Call("unlink")
    /\ upper' = Removed(upper, Item)
    /\ UNCHANGED <<lower, trash>>
    /\ ItemDone

ClearOpaque ==
    /\ Call("clear")
    /\ upper' = [upper EXCEPT ![Item].kind = "dir"]
    /\ UNCHANGED <<lower, trash>>
    /\ Called

Moved == lower' = Grafted(lower, upper, Item) /\ upper' = Removed(upper, Item)

\* renameat2 with RENAME_NOREPLACE, for folders.
Move ==
    /\ Call("move")
    /\ IF There(Item)
       THEN Failing
       ELSE Moved /\ UNCHANGED trash /\ ItemDone

\* renameat, for all that is no folder: it fails on a folder.
Replace ==
    /\ Call("replace")
    /\ IF IsDir(lower[Item])
       THEN Failing
       ELSE Moved /\ UNCHANGED trash /\ ItemDone

StashMtime ==
    /\ Call("stash")
    /\ upper' = [upper EXCEPT ![Item].stash = upper[Item].mtime]
    /\ UNCHANGED <<lower, trash>>
    /\ Called

\* The time to be set is the stashed one, which is there by now.
Enter ==
    /\ Call("enter")
    /\ frames' = Append(Dropped, [at |-> Item, rest |-> ReadNames(upper, Item), mtime |-> upper[Item].stash])
    /\ calls' = <<>>
    /\ UNCHANGED <<disk, roots, phase, stops>>

Chown ==
    /\ Call("chown")
    /\ lower' = [lower EXCEPT ![Frame.at].owner = upper[Frame.at].owner]
    /\ UNCHANGED <<upper, trash>>
    /\ Called

Chmod ==
    /\ Call("chmod")
    /\ lower' = [lower EXCEPT ![Frame.at].mode = upper[Frame.at].mode]
    /\ UNCHANGED <<upper, trash>>
    /\ Called

Chtimes ==
    /\ Call("chtimes")
    /\ lower' = [lower EXCEPT ![Frame.at].mtime = Frame.mtime]
    /\ UNCHANGED <<upper, trash>>
    /\ Called

Rmdir ==
    /\ Call("rmdir")
    /\ IF ReadNames(upper, Frame.at) # <<>>
       THEN Failing
       ELSE /\ upper' = Removed(upper, Frame.at)
            /\ frames' = Front(frames)
            /\ calls' = <<>>
            /\ UNCHANGED <<lower, trash, roots, phase, stops>>

-----------------------------------------------------------------------------
(* The helper dies, its context ends, or a call fails: all look the same.  *)

Stop ==
    /\ phase = "walking" /\ stops < MaxStops
    /\ phase' = "idle"
    /\ frames' = <<>>
    /\ calls' = <<>>
    /\ stops' = stops + 1
    /\ UNCHANGED <<disk, roots>>

-----------------------------------------------------------------------------
Shaped(tree, folders) ==
    \A p \in Paths : tree[p] # Absent => \A q \in Above(p) : tree[q].kind \in folders

\* What the lower holds before: folders and others, for all their paths.
Lowers == {t \in [Paths -> {Absent, Entry("other", "lower"), Entry("dir", "lower")}] : Shaped(t, {"dir"})}

Uppers ==
    {t \in [Paths -> {Absent} \cup {Entry(k, "upper") : k \in Kinds \ {"absent"}}] : Shaped(t, {"dir", "opaque"})}

\* Overlay leaves no whiteout where the folder shows nothing of the lower.
WellFormed(u, l) ==
    \A p \in Paths : u[p].kind = "whiteout" => \A q \in Above(p) : u[q].kind = "dir" /\ l[q].kind = "dir"

Init ==
    /\ lower \in Lowers
    /\ upper \in Uppers
    /\ roots \in Roots
    /\ roots \in {r \in Roots : r.abs /\ r.dir /\ r.apart /\ r.fs /\ r.mnt} \/ upper = [p \in Paths |-> Absent]
    /\ WellFormed(upper, lower)
    /\ trash = {}
    /\ phase = "idle" /\ frames = <<>> /\ calls = <<>> /\ stops = 0

Go ==
    \/ Preflight \/ Apply \/ Look \/ Walked
    \/ Discard \/ Unlink \/ ClearOpaque \/ Move \/ Replace
    \/ StashMtime \/ Enter \/ Chown \/ Chmod \/ Chtimes \/ Rmdir

Next == Go \/ Stop
Spec == Init /\ [][Next]_vars
FairSpec == Spec /\ WF_vars(Go)

-----------------------------------------------------------------------------
(* What the overlay of the two shows at a path.                            *)

\* A mark within a folder that was moved as a whole says nothing any more.
Plain(e) == IF IsDir(e) THEN [e EXCEPT !.kind = "dir"] ELSE e

\* An entry of the upper; a folder that is being walked shows its old time.
Shown(e) ==
    CASE e.kind = "whiteout" -> Absent
      [] IsDir(e) /\ e.stash # "none" -> [e EXCEPT !.kind = "dir", !.mtime = e.stash, !.stash = "none"]
      [] OTHER -> Plain(e)

View ==
    [p \in Paths |->
        IF upper[p] # Absent THEN Shown(upper[p])
        ELSE IF \A q \in Above(p) : upper[q].kind \in {"absent", "dir"} THEN Plain(lower[p])
        ELSE Absent]

Promise == INSTANCE AtomicMerge WITH
    NoTree <- <<>>,
    seen <- View,
    answer <- CASE phase = "done" -> "merged" [] phase = "refused" -> "refused" [] OTHER -> "none",
    base <- IF phase = "done" THEN [p \in Paths |-> Plain(lower[p])] ELSE <<>>

\* A merge, however often it is stopped and taken up again, shows whoever
\* looks at the overlay the same throughout, comes to an end and leaves in the
\* lower exactly what was shown, with its owners, modes and times (merge.go:
\* once again from the start is the same as once through).
Implements == Promise!Spec

\* What the merge takes out of the lower it did not show before, and it is
\* whole in the trash (merge.go, Options.Discard).
DiscardsHidden == [][
    \A p \in Paths : lower[p] # Absent /\ lower'[p] = Absent =>
        /\ View[p] # Plain(lower[p])
        /\ \E t \in trash' : p \in DOMAIN t /\ t[p] = lower[p]]_vars

\* Types; in both trees what is above an entry is a folder.
TypeOK ==
    /\ \A t \in {upper, lower} :
          \A p \in Paths :
              /\ t[p].kind \in Kinds
              /\ {t[p].owner, t[p].mode, t[p].mtime} \subseteq Sides
    /\ phase \in {"idle", "walking", "done", "refused", "failed"}
    /\ Shaped(upper, {"dir", "opaque"}) /\ Shaped(lower, {"dir", "opaque"})
    /\ phase = "walking" => frames # <<>>
    /\ stops \in 0..MaxStops
=============================================================================
