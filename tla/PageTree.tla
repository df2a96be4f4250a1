------------------------------ MODULE PageTree ------------------------------
(***************************************************************************)
(* The tree of a workspace's wiki pages, given by the parent of each page  *)
(* (Root is parent_id ''), and who is shown which of them.  The code walks *)
(* from page to page; what a walk has visited in the end is the smallest   *)
(* set that holds its start and is closed under its step, and that is how  *)
(* a walk is written here, so that it means something on a cycle too.      *)
(***************************************************************************)
CONSTANTS
  Pages,        \* the ids that pages can have
  Root          \* the parent of a page at the top

ASSUME PageTreeAssumption == Root \notin Pages

\* The pages seen on the way up from q, q included.
Up(parent, q) ==
  {x \in Pages : \A S \in SUBSET Pages :
     (q \in S /\ \A y \in S : parent[y] \in S \cup {Root}) => x \in S}

\* p and its descendants.
Below(parent, p) ==
  {x \in Pages : \A S \in SUBSET Pages :
     (p \in S /\ \A y \in Pages : parent[y] \in S => y \in S) => x \in S}

\* The way up from q ends at the top.
Rooted(parent, q) == \E x \in Up(parent, q) : parent[x] = Root

\* validateParent of a page p that is moved, or created, under q.
ValidParent(parent, pages, p, q) ==
  \/ q = Root
  \/ q # p /\ q \in pages /\ p \notin Up(parent, q) /\ Rooted(parent, q)

\* No page is above itself: every set of pages has one whose parent is not in it.
Acyclic(parent) ==
  \A S \in SUBSET Pages : S # {} => \E x \in S : parent[x] \notin S

\* BuildPageTree: the pages of a list that hang from the top by pages of the list.
Listed(parent, list) ==
  {x \in list : Up(parent, x) \subseteq list /\ Rooted(parent, x)}

\* FilterGuestPages: published, and so is everything above them.
GuestPages(parent, pages, published) ==
  {x \in pages \cap published :
     Up(parent, x) \subseteq published /\ Rooted(parent, x)}
=============================================================================
