------------------------------- MODULE Pager -------------------------------
(***************************************************************************)
(* The rows of page buttons below the event table (EventsPage.tsx) and     *)
(* below the audit log (AuditLogPage.tsx), which are computed differently. *)
(***************************************************************************)
EXTENDS Integers, SequencesExt

Gap == -1      \* "..."

Near(p, q, reach) == p - q <= reach /\ q - p <= reach

\* The pages that have a button: of pages 0 .. total - 1, and of 1 .. total.
EventPages(page, total) ==
  {p \in 0 .. total - 1 : p = 0 \/ p = total - 1 \/ Near(p, page, 1)}

AuditPages(page, total) ==
  {p \in 1 .. total : p = 1 \/ p = total \/ Near(p, page, 2)}

\* A variant that puts one "..." for every page it leaves out.
EventButtons_Repeats(page, total) ==
  FoldLeft(LAMBDA shown, p :
             IF p \in EventPages(page, total) THEN Append(shown, p) ELSE Append(shown, Gap),
           <<>>, [i \in 1 .. total |-> i - 1])

\* Page after page.
EventButtons(page, total) ==
  FoldLeft(LAMBDA shown, p :
             IF p \in EventPages(page, total) THEN Append(shown, p)
             ELSE IF Last(shown) # Gap THEN Append(shown, Gap) ELSE shown,
           <<>>, [i \in 1 .. total |-> i - 1])

\* A variant that takes a hole of one page for none.
AuditButtons_Wide(page, total) ==
  LET kept == SelectSeq([i \in 1 .. total |-> i], LAMBDA p : p \in AuditPages(page, total)) IN
    FoldLeft(LAMBDA shown, p :
               IF shown # <<>> /\ p - Last(shown) > 2 THEN shown \o <<Gap, p>>
               ELSE Append(shown, p),
             <<>>, kept)

\* First the pages to show, then the holes between them.
AuditButtons(page, total) ==
  LET kept == SelectSeq([i \in 1 .. total |-> i], LAMBDA p : p \in AuditPages(page, total)) IN
    FoldLeft(LAMBDA shown, p :
               IF shown # <<>> /\ p - Last(shown) > 1 THEN shown \o <<Gap, p>>
               ELSE Append(shown, p),
             <<>>, kept)

\* What a reader takes from such a row: it begins and ends with the first and
\* the last page, shows the one he is on, has a button for all of "pages" and no
\* other, and "..." stands exactly where pages are left out.
Tells(buttons, pages, first, last, page) ==
  /\ buttons # <<>> /\ ToSet(buttons) \ {Gap} = pages
  /\ Head(buttons) = first /\ Last(buttons) = last
  /\ page \in pages
  /\ \A i \in 1 .. Len(buttons) - 1 :
       LET a == buttons[i]
           b == buttons[i + 1] IN
         IF a # Gap /\ b # Gap THEN b = a + 1
         ELSE a # Gap => b = Gap /\ buttons[i + 2] # Gap /\ buttons[i + 2] > a + 1
=============================================================================
