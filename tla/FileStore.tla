----------------------------- MODULE FileStore -----------------------------
(***************************************************************************)
(* What the file system promises, without clusters, a FAT or handles: a    *)
(* tree of files and directories, in which each operation concerns one     *)
(* path (a rename two) and leaves the contents of every other file alone.  *)
(***************************************************************************)
EXTENDS Integers, Sequences

CONSTANTS Path, Cells, MaxSize   \* paths; what a file consists of; its longest length

VARIABLE files

NoFile == [kind |-> "none"]
Directory == [kind |-> "dir"]
Lost == [kind |-> "lost"]
File(cells) == [kind |-> "file", cells |-> cells]

Init == files = [p \in Path |-> NoFile]

----------------------------------------------------------------------------
(* What may become of the one path p that an operation concerns *)

Create(p) ==
    /\ files[p] = NoFile
    /\ files'[p] \in {File(<<>>), Directory}

Remove(p) ==
    /\ \/ files[p].kind = "file"
       \/ /\ files[p] = Directory
          /\ \A q \in Path : Len(q) > Len(p) /\ SubSeq(q, 1, Len(p)) = p
                                => files[q] = NoFile
    /\ files'[p] = NoFile

(***************************************************************************)
(* A write: the file does not get shorter and has no holes.                *)
(***************************************************************************)
Store(p) ==
    LET old == files[p]
        new == files'[p]
    IN  /\ old.kind = "file"
        /\ new.kind = "file"
        /\ new.cells \in Seq(Cells)
        /\ Len(new.cells) \in Len(old.cells)..MaxSize

Truncate(p) ==
    /\ files[p].kind = "file"
    /\ files'[p] = File(<<>>)

Alter(p) ==
    /\ files' = [files EXCEPT ![p] = files'[p]]
    /\ Store(p) \/ Create(p) \/ Remove(p) \/ Truncate(p)

----------------------------------------------------------------------------
(***************************************************************************)
(* A failing device interrupts the removal or truncation of p, or never    *)
(* got to hear of it: p is lost with what is below it, and nothing else.   *)
(***************************************************************************)
Lose(p) ==
    /\ files[p] # NoFile
    /\ files'[p] = Lost
    /\ files' = [q \in Path |->
                    IF Len(q) >= Len(p) /\ SubSeq(q, 1, Len(p)) = p THEN Lost ELSE files[q]]

Rename(p, q) ==
    /\ files[p].kind = "file"
    /\ files[q] = NoFile
    /\ files' = [files EXCEPT ![p] = NoFile, ![q] = files[p]]

Next ==
    \/ \E p \in Path : Alter(p) \/ Lose(p)
    \/ \E p, q \in Path : Rename(p, q)

Spec == Init /\ [][Next]_files
=============================================================================
