---------------------------- MODULE PagedListing ----------------------------
(***************************************************************************)
(* What a filtered search promises the client that follows its page        *)
(* tokens: each page continues where the last one ended and holds exactly  *)
(* the readable items it passed over, in order; a page that is not full    *)
(* ends the listing (docs/permissions.md, search filtering).  Nothing is   *)
(* promised once the listing or the rights have changed under the client.  *)
(***************************************************************************)
EXTENDS Naturals, Sequences, SequencesExt

CONSTANT MaxResults   \* the page size the client asks for

VARIABLES
  readable,     \* the items that pass the checks of the page being answered
  listing,      \* every item, once, in the order of the search
  cursor,       \* how much of the listing the pages so far have covered
  shown,        \* what the pages so far have held, in order
  disturbed     \* something has changed

Init ==
  /\ cursor = 0
  /\ shown = <<>>
  /\ ~disturbed

(* new names some of the items passed, in their order and none twice.      *)
InOrder(new, passed) ==
  \A m, n \in DOMAIN new : m < n =>
    \E j, k \in DOMAIN passed : j < k /\ passed[j] = new[m] /\ passed[k] = new[n]

(* One page, up to position c of the listing.                              *)
Page(c) ==
  LET passed == SubSeq(listing, cursor + 1, c)
      new == SubSeq(shown', Len(shown) + 1, Len(shown'))
  IN /\ c \in cursor .. Len(listing)
     /\ shown' = shown \o new
     /\ ToSet(new) = ToSet(passed) \cap readable /\ InOrder(new, passed)
     /\ Len(new) <= MaxResults
     /\ Len(new) = MaxResults \/ c = Len(listing)
     /\ cursor' = c
     /\ UNCHANGED <<readable, listing, disturbed>>

(* The client starts over, perhaps for another user.                       *)
Restart ==
  /\ cursor' = 0
  /\ shown' = <<>>
  /\ UNCHANGED <<listing, disturbed>>

(* What the user may read is judged anew for every page.                   *)
Judge == UNCHANGED <<listing, cursor, shown, disturbed>>

(* A change, and whatever the client then sees.                            *)
Disturbed == disturbed'

Next == Restart \/ Judge \/ Disturbed \/ \E c \in cursor .. Len(listing) : Page(c)

Spec == Init /\ [][Next]_<<readable, listing, cursor, shown, disturbed>>
=============================================================================
