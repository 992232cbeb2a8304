------------------------------ MODULE Timeline ------------------------------
(***************************************************************************)
(* What undo and redo promise: the versions of a document form one line    *)
(* with a cursor on the version shown.  Undo and redo only move the        *)
(* cursor; an edit that is not recorded replaces the version under the     *)
(* cursor; a recorded edit forgets what lies ahead, keeps at most Depth    *)
(* versions behind the cursor and shows the new one.                       *)
(***************************************************************************)
EXTENDS Naturals, Sequences

CONSTANTS Version,   \* the versions a document may have
          Depth      \* how many versions are kept behind the cursor

VARIABLES line, pos

tvars == <<line, pos>>

\* The latest n elements of s: what Array.slice(-n) of the source returns.
Latest(s, n) == IF Len(s) <= n THEN s ELSE SubSeq(s, Len(s) - n + 1, Len(s))

Init ==
  /\ line \in Seq(Version) /\ Len(line) = 1
  /\ pos = 1

Amend(v) ==
  /\ line' = [line EXCEPT ![pos] = v]
  /\ pos' = pos

\* kept is the version that undo will come back to: the one shown, unless the
\* edit was prepared on an older one.
Record(kept, v) ==
  /\ line' = Append(Append(Latest(SubSeq(line, 1, pos - 1), Depth - 1), kept), v)
  /\ pos' = Len(line')

Move ==
  /\ pos' \in 1 .. Len(line)
  /\ pos' \in {pos - 1, pos + 1}
  /\ line' = line

\* The versions an edit keeps and shows are read off the line it makes.
Next ==
  /\ line' \in Seq(Version)
  /\ \/ pos \in 1 .. Len(line') /\ Amend(line'[pos])
     \/ /\ Len(line') > 1
        /\ Record(line'[Len(line') - 1], line'[Len(line')])
     \/ Move

Spec == Init /\ [][Next]_tvars
=============================================================================
