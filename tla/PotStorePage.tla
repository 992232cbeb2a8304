---------------------------- MODULE PotStorePage ----------------------------
(***************************************************************************)
(* The store of honeypots (PotStorePage.tsx): the catalogue with its       *)
(* facets, the favourites kept in the browser's storage, and the dialog    *)
(* that deploys a honeypot on a node.  Sorting and the dialog with details *)
(* only arrange what is shown and are left out.                            *)
(***************************************************************************)
EXTENDS Naturals, FiniteSets

CONSTANTS Catalogue,  \* what a sync may bring: records [id, type, language, ports]
          Hosts, NoHost,
          MaxTicked,  \* bound: boxes ticked at once
          MaxDeploys  \* bound: deployments asked for and not answered

VARIABLES view,
          stored      \* the favourites in localStorage, which outlive the page

Here == view.page = "potstore"

Ids == {p.id : p \in Catalogue}

Closed == [pot |-> "none", node |-> NoHost, at |-> "closed", names |-> NoHost]

Mounted ==
  {[page |-> "potstore", pots |-> {}, favorites |-> stored, favOnly |-> FALSE,
    cats |-> {}, langs |-> {}, protos |-> {},
    dialog |-> Closed, jobs |-> {}, made |-> {}, patient |-> k]
     : k \in BOOLEAN}

Change(next) == Here /\ view' = next

-----------------------------------------------------------------------------
\* The list and its facets.

Category(p) == IF p.type = "" THEN "other" ELSE p.type

FacetOf(p) ==
  [cats |-> {Category(p)},
   langs |-> {p.language} \ {""},
   protos |-> p.ports]

\* A variant that looks for the type itself.
InFacets_Type(p, cats, langs, protos) ==
  /\ cats # {} => p.type \in cats
  /\ langs # {} => p.language \in langs
  /\ protos # {} => p.ports \intersect protos # {}

InFacets(p, cats, langs, protos) ==
  /\ cats # {} => Category(p) \in cats
  /\ langs # {} => p.language \in langs
  /\ protos # {} => p.ports \intersect protos # {}

Filtered ==
  {p \in view.pots : /\ view.favOnly => p.id \in view.favorites
                     /\ InFacets(p, view.cats, view.langs, view.protos)}

\* The numbers beside the boxes.
Count(facet, key) == Cardinality({p \in view.pots : key \in FacetOf(p)[facet]})

Keys(facet) == UNION {FacetOf(p)[facet] : p \in view.pots}

Toggled(set, k) == IF k \in set THEN set \ {k} ELSE set \union {k}

Ticked(v) == Cardinality(v.cats) + Cardinality(v.langs) + Cardinality(v.protos)

ToggleFacet ==
  \E facet \in {"cats", "langs", "protos"} : \E k \in Keys(facet) :
    LET next == [view EXCEPT ![facet] = Toggled(@, k)] IN
      Ticked(next) <= MaxTicked /\ Change(next)

SetFavOnly == Change([view EXCEPT !.favOnly = ~@])

ClearAll ==
  Change([view EXCEPT !.cats = {}, !.langs = {}, !.protos = {}, !.favOnly = FALSE])

\* The catalogue arrives, also after a sync: boxes of what is gone stay ticked.
Arrives == \E ps \in {{}, Catalogue} : Change([view EXCEPT !.pots = ps])

\* A variant whose effect runs only when the page opens.
ToggleFav_NotStored(id) ==
  /\ Here /\ id \in {p.id : p \in Filtered}
  /\ view' = [view EXCEPT !.favorites = Toggled(@, id)] /\ stored' = stored

\* The effect writes the whole set whenever it has changed.
ToggleFav(id) ==
  /\ Here /\ id \in {p.id : p \in Filtered}
  /\ LET f == Toggled(view.favorites, id) IN
       view' = [view EXCEPT !.favorites = f] /\ stored' = f

-----------------------------------------------------------------------------
\* Deploying.

OpenDeploy ==
  /\ view.dialog = Closed
  /\ \E p \in Filtered : Change([view EXCEPT !.dialog = [Closed EXCEPT !.pot = p.id, !.at = "open"]])

\* A dialog that is closed hears of its request no more.
CloseDeploy ==
  /\ view.dialog # Closed
  /\ Change([view EXCEPT !.dialog = Closed,
                         !.jobs = {[j EXCEPT !.own = FALSE] : j \in @}])

\* The select stays enabled while the request is under way.  It offers the
\* nodes online; one chosen stays chosen when it goes offline, so any may be.
ChooseNode ==
  /\ view.dialog.at \in {"open", "failed"} \union (IF view.patient THEN {} ELSE {"sent"})
  /\ \E n \in Hosts : Change([view EXCEPT !.dialog.node = n])

Deploy ==
  /\ view.dialog.at \in {"open", "failed"} /\ view.dialog.node # NoHost
  /\ Cardinality(view.jobs) < MaxDeploys
  /\ Change([view EXCEPT !.dialog.at = "sent",
                         !.jobs = @ \union {[pot |-> view.dialog.pot, node |-> view.dialog.node,
                                             own |-> TRUE, at |-> "sent"]}])

Serve(job) ==
  /\ job.at = "sent"
  /\ Change([view EXCEPT !.jobs = (@ \ {job}) \union {[job EXCEPT !.at = "served"]},
                         !.made = @ \union {[pot |-> job.pot, node |-> job.node]}])

\* A variant in which whatever dialog is open hears of an answer.
Settle_AnyDialog(job) ==
  /\ job.at = "served"
  /\ Change([view EXCEPT !.jobs = @ \ {job},
                         !.dialog = IF view.dialog.at = "sent"
                                    THEN [@ EXCEPT !.at = "done", !.names = view.dialog.node] ELSE @])

\* The dialog names the node chosen when the answer comes.
Settle(job) ==
  /\ job.at = "served"
  /\ Change([view EXCEPT !.jobs = @ \ {job},
                         !.dialog = IF job.own
                                    THEN [@ EXCEPT !.at = "done", !.names = view.dialog.node]
                                    ELSE @])

Refused(job) ==
  /\ job.at \in {"sent", "served"}
  /\ Change([view EXCEPT !.jobs = @ \ {job},
                         !.dialog.at = IF job.own THEN "failed" ELSE @])

Step ==
  /\ Here
  /\ \/ /\ \/ Arrives \/ OpenDeploy \/ CloseDeploy \/ ChooseNode \/ Deploy
           \/ \E j \in view.jobs : Serve(j)
           \/ \E j \in view.jobs : Settle(j)
           \/ \E j \in view.jobs : Refused(j)
           \/ view.dialog = Closed /\ (ToggleFacet \/ SetFavOnly \/ ClearAll)
        /\ UNCHANGED stored
     \/ view.dialog = Closed /\ \E id \in Ids : ToggleFav(id)

-----------------------------------------------------------------------------
TypeOK ==
  /\ view.pots \subseteq Catalogue
  /\ view.favorites \subseteq Ids /\ stored \subseteq Ids
  /\ view.dialog.node \in Hosts \union {NoHost}

\* The number beside a box is the number of honeypots ticking it alone shows,
\* of every kind of box and for entries without a type
\* (PotStorePage.tsx:507-514,524-534).
FacetCountsAreTrue ==
  Here =>
    /\ \A k \in Keys("cats") :
         Count("cats", k) = Cardinality({p \in view.pots : InFacets(p, {k}, {}, {})})
    /\ \A k \in Keys("langs") :
         Count("langs", k) = Cardinality({p \in view.pots : InFacets(p, {}, {k}, {})})
    /\ \A k \in Keys("protos") :
         Count("protos", k) = Cardinality({p \in view.pots : InFacets(p, {}, {}, {k})})

\* What is stored is what is shown: a page opened later starts from the same
\* favourites (PotStorePage.tsx:496-499).
FavoritesAreKept == Here => stored = view.favorites

\* "is being installed" is said of a deployment that was made, of this
\* honeypot on this node, also when an earlier dialog was closed before its
\* answer came; provided the user leaves the node alone while he waits
\* (PotStorePage.tsx:141-143,182).
SuccessIsTrue ==
  Here /\ view.patient /\ view.dialog.at = "done" =>
    [pot |-> view.dialog.pot, node |-> view.dialog.names] \in view.made
=============================================================================
