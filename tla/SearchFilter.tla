---------------------------- MODULE SearchFilter ----------------------------
(***************************************************************************)
(* Search-result filtering (hooks/after_request.py).                       *)
(*                                                                         *)
(* MLflow answers a search with one page of its listing.  The after-request*)
(* handler removes what the user may not read and refills the page from    *)
(* the following ones, leaving a page token that points behind the last    *)
(* item it used.  A client follows the tokens while items appear, vanish   *)
(* and change hands, between pages and in the middle of one.               *)
(*                                                                         *)
(* Tokens are offsets into the listing, as MLflow's are.                   *)
(***************************************************************************)
EXTENDS Naturals, Sequences, FiniteSets, SequencesExt

CONSTANTS
  Items,        \* experiments, models, model versions or logged models
  Start,        \* the listing at first, a sequence of distinct items
  Blocked,      \* items in a workspace the user has no access to
  Searches,     \* "offset": three of the searches, "logged": logged models
  MaxResults,   \* the page size the client asks for
  End,          \* the empty page token
  MaxChanges,   \* bound: changes to the listing and to permissions
  MaxLost       \* bound: workspace lookups that fail

ASSUME SearchAssumption ==
  /\ Start \in Seq(Items) /\ IsInjective(Start)
  /\ Blocked \subseteq Items
  /\ Searches \subseteq {"offset", "logged"}
  /\ MaxResults \in Nat \ {0}
  /\ End \notin Nat
  /\ MaxChanges \in Nat /\ MaxLost \in Nat

VARIABLES
  listing,   \* what MLflow lists, in the order of the search
  readable,  \* items the user has READ on
  client,    \* the traversal: kind of search, admin or not, token, items shown
  req,       \* the request in progress
  lost,      \* items shown although blocked, their workspace lookup failed
  changes,   \* number of changes so far
  steady,    \* history: items listed and readable since the traversal began
  seen,      \* history: items readable at some moment of the request
  removed,   \* history: an item has gone since the traversal began
  inserted   \* history: an item has come since the traversal began

history == <<steady, seen, removed, inserted>>
world == <<listing, readable, changes>>
searchVars == <<listing, readable, client, req, lost, changes, history>>

-----------------------------------------------------------------------------
Idle == [pc |-> "idle"]

Traversal(kind, admin) == [kind |-> kind, admin |-> admin, token |-> 0, shown |-> <<>>]

(* SelectSeq(s, LAMBDA i : i \in K), defined by the places of what is kept.*)
Rank(P, j) == Cardinality({k \in P : k <= j})
Keep(s, K) ==
  LET P == {j \in 1 .. Len(s) : s[j] \in K}
  IN  [n \in 1 .. Cardinality(P) |-> s[CHOOSE j \in P : Rank(P, j) = n]]

(* s[m:n] of Python, counting from 1: the end may lie behind the last item. *)
Slice(s, m, n) == SubSeq(s, m, IF n < Len(s) THEN n ELSE Len(s))

(* MLflow's page at an offset, and its token: empty on the last page.      *)
MlflowPage(offset) == Slice(listing, offset + 1, offset + MaxResults)
IsLastPage(offset) == offset + MaxResults >= Len(listing)
MlflowToken(offset) == IF IsLastPage(offset) THEN End ELSE offset + MaxResults

(* The request-scoped memo: an item is asked about once per request.       *)
Granted(items) == req.granted \cup ((items \ req.asked) \cap readable)

(* can_read_* and _can_access_workspace; an item whose workspace could not *)
(* be looked up counts as one without a workspace.                         *)
KeptUnlessBlocked(batch, failed) == Keep(batch, (Items \ Blocked) \cup failed)
Kept(batch, failed) ==
  Keep(batch, Granted(ToSet(batch)) \cap ((Items \ Blocked) \cup failed))

(* The workspace lookups of a page that may fail.                          *)
LookupFailures(batch) ==
  {f \in SUBSET (ToSet(batch) \cap Blocked) : Cardinality(f \cup lost) <= MaxLost}

Remaining == MaxResults - Len(req.page)

(* The re-fetched page is cut to the room left.                            *)
CutToRemaining(batch) == Slice(batch, 1, Remaining)

(* The token behind the items used; a bug could skip a page or stay put.   *)
NextPageOffset(offset, used) == offset + MaxResults
OffsetStays(offset, used) == offset
OffsetAfter(offset, used) == offset + used

-----------------------------------------------------------------------------
SearchInit ==
  /\ listing = Start
  /\ readable \in SUBSET Items
  /\ \E kind \in Searches, admin \in BOOLEAN : client = Traversal(kind, admin)
  /\ req = Idle
  /\ lost = {}
  /\ changes = 0
  /\ steady = ToSet(listing) \cap readable
  /\ seen = {}
  /\ removed = FALSE
  /\ inserted = FALSE

-----------------------------------------------------------------------------
(* The client *)

(* The client asks for the next page; MLflow answers it before the handler *)
(* runs.  For an administrator the handler leaves the answer alone.        *)
Search ==
  /\ req = Idle
  /\ client.token # End
  /\ req' = [pc |-> IF client.admin THEN "filled" ELSE "received",
             page |-> MlflowPage(client.token), token |-> MlflowToken(client.token),
             batch |-> <<>>, last |-> FALSE, asked |-> {}, granted |-> {}]
  /\ lost' = {}
  /\ seen' = readable
  /\ UNCHANGED <<world, client, steady, removed, inserted>>

(* The client has seen the last page, or gives up, and starts a new search.*)
StartOver(kind, admin) ==
  /\ req = Idle
  /\ client' = Traversal(kind, admin)
  /\ steady' = ToSet(listing) \cap readable
  /\ removed' = FALSE
  /\ inserted' = FALSE
  /\ lost' = {}
  /\ UNCHANGED <<world, req, seen>>

-----------------------------------------------------------------------------
(* The handler: _filter_search_* *)

(* Unreadable items leave MLflow's page.                                   *)
FilterFirstPage ==
  /\ req.pc = "received"
  /\ \E failed \in LookupFailures(req.page) :
       /\ req' = [req EXCEPT !.pc = "filling", !.page = Kept(req.page, failed),
                             !.asked = @ \cup ToSet(req.page),
                             !.granted = Granted(ToSet(req.page))]
       /\ lost' = lost \cup failed
  /\ UNCHANGED <<world, client, history>>

Filled == Len(req.page) >= MaxResults \/ req.token = End

(* Experiments, models and versions: the store's next page, cut to the room*)
(* left; an empty one ends the listing.                                    *)
FetchPage ==
  LET batch == CutToRemaining(MlflowPage(req.token)) IN
  /\ req.pc = "filling" /\ ~Filled
  /\ client.kind = "offset"
  /\ req' = IF batch = <<>> THEN [req EXCEPT !.token = End]
            ELSE [req EXCEPT !.pc = "fetched", !.batch = batch]
  /\ UNCHANGED <<world, client, lost, history>>

AddReadable ==
  /\ req.pc = "fetched"
  /\ client.kind = "offset"
  /\ req' = [req EXCEPT !.pc = "filling", !.page = @ \o Kept(req.batch, {}),
                        !.token = OffsetAfter(@, Len(req.batch)), !.batch = <<>>,
                        !.asked = @ \cup ToSet(req.batch),
                        !.granted = Granted(ToSet(req.batch))]
  /\ UNCHANGED <<world, client, lost, history>>

(* Logged models: a whole page, and whether the store called it the last.  *)
FetchLoggedModels ==
  /\ req.pc = "filling" /\ ~Filled
  /\ client.kind = "logged"
  /\ req' = [req EXCEPT !.pc = "fetched", !.batch = MlflowPage(req.token),
                        !.last = IsLastPage(req.token)]
  /\ UNCHANGED <<world, client, lost, history>>

(* Its models are taken one by one until the page is full; the token then  *)
(* points behind the last one taken.                                       *)
AddLoggedModels ==
  /\ req.pc = "fetched"
  /\ client.kind = "logged"
  /\ \E failed \in LookupFailures(req.batch) :
       LET kept == Kept(req.batch, failed)
           used == IF Len(kept) < Remaining THEN Len(req.batch)
                   ELSE CHOOSE n \in 1 .. Len(req.batch) :
                          /\ Len(Kept(SubSeq(req.batch, 1, n), failed)) = Remaining
                          /\ Len(Kept(SubSeq(req.batch, 1, n - 1), failed)) < Remaining
           taken == SubSeq(req.batch, 1, used)
       IN /\ req' = [req EXCEPT
               !.pc = "filling", !.batch = <<>>,
               !.page = @ \o Kept(taken, failed),
               !.asked = @ \cup ToSet(taken), !.granted = Granted(ToSet(taken)),
               !.token = IF req.last /\ used = Len(req.batch) THEN End
                         ELSE IF Len(kept) < Remaining THEN @ + MaxResults
                         ELSE OffsetAfter(@, used)]
          /\ lost' = lost \cup (failed \cap ToSet(taken))
  /\ UNCHANGED <<world, client, history>>

(* The filtered page goes to the client.                                   *)
Respond ==
  /\ req.pc = "filled" \/ (req.pc = "filling" /\ Filled)
  /\ client' = [client EXCEPT !.token = req.token, !.shown = @ \o req.page]
  /\ req' = Idle
  /\ UNCHANGED <<world, lost, history>>

(* A store error in the handler fails the request; the client keeps its    *)
(* token.                                                                  *)
Fail ==
  /\ req.pc = "filling" /\ ~Filled
  /\ req' = Idle
  /\ UNCHANGED <<world, client, lost, history>>

-----------------------------------------------------------------------------
(* Everything else that goes on *)

Change ==
  /\ changes < MaxChanges
  /\ changes' = changes + 1
  /\ UNCHANGED <<client, req, lost>>

Create(i, n) ==
  /\ i \notin ToSet(listing)
  /\ Change
  /\ listing' = InsertAt(listing, n, i)
  /\ inserted' = TRUE
  /\ UNCHANGED <<readable, steady, seen, removed>>

Delete(i) ==
  /\ i \in ToSet(listing)
  /\ Change
  /\ listing' = Keep(listing, Items \ {i})
  /\ removed' = TRUE
  /\ steady' = steady \ {i}
  /\ UNCHANGED <<readable, seen, inserted>>

Grant(i) ==
  /\ i \notin readable
  /\ Change
  /\ readable' = readable \cup {i}
  /\ seen' = seen \cup {i}
  /\ UNCHANGED <<listing, steady, removed, inserted>>

Revoke(i) ==
  /\ i \in readable
  /\ Change
  /\ readable' = readable \ {i}
  /\ steady' = steady \ {i}
  /\ UNCHANGED <<listing, seen, removed, inserted>>

-----------------------------------------------------------------------------
(* _filter_search_experiments, _registered_models and _model_versions      *)
OffsetSearch == FilterFirstPage \/ FetchPage \/ AddReadable \/ Respond \/ Fail

(* _filter_search_logged_models                                            *)
LoggedModelSearch == FetchLoggedModels \/ AddLoggedModels

Handler == OffsetSearch \/ LoggedModelSearch

SearchNext ==
  \/ Search
  \/ \E kind \in Searches, admin \in BOOLEAN : StartOver(kind, admin)
  \/ Handler
  \/ \E i \in Items, n \in 1 .. Len(listing) + 1 : Create(i, n)
  \/ \E i \in Items : Delete(i)
  \/ \E i \in Items : Grant(i)
  \/ \E i \in Items : Revoke(i)

SearchSpec == SearchInit /\ [][SearchNext]_searchVars

(* The handler runs on without failing for ever.                           *)
FairSpec == SearchSpec /\ WF_searchVars(Handler)

-----------------------------------------------------------------------------
(* Properties *)

(* The variables' types; a page never grows past max_results.              *)
SearchTypeOK ==
  /\ listing \in Seq(Items)
  /\ readable \subseteq Items
  /\ client.token \in Nat \cup {End}
  /\ client.shown \in Seq(Items)
  /\ req = Idle \/ /\ req.pc \in {"received", "filling", "fetched", "filled"}
                   /\ req.page \in Seq(Items)
                   /\ Len(req.page) <= MaxResults
                   /\ req.token \in Nat \cup {End}
                   /\ req.granted \subseteq req.asked
  /\ changes \in 0 .. MaxChanges

InAnswer == IF req.pc = "filling" THEN ToSet(req.page) ELSE {}

(* A page holds only items that were readable at some moment of its own    *)
(* request and, unless the lookup of its workspace failed, none in a       *)
(* workspace without access: refilled pages pass the checks of the first.  *)
OnlyReadableShown ==
  \A i \in InAnswer : i \in seen /\ (i \in Blocked => i \in lost)

(* Following the tokens to the end misses no item that was listed and      *)
(* readable all along, whatever was created or re-granted meanwhile, so    *)
(* long as nothing was deleted: the offset never passes an unchecked item. *)
NothingSkipped ==
  (client.token = End /\ ~removed) => steady \ Blocked \subseteq ToSet(client.shown)

(* Nor is an item shown twice so long as nothing was created: a re-fetched *)
(* page starts behind everything used before.                              *)
NothingTwice ==
  ~inserted => IsInjective(client.shown \o (IF req = Idle THEN <<>> ELSE req.page))

(* A search is answered: refilling ends, for the offset always moves on.   *)
SearchAnswered == (req # Idle) ~> (req = Idle)

(* Until something changes the pages are what PagedListing promises, with  *)
(* the blocked items let through by a workspace lookup that failed.        *)
Promise == INSTANCE PagedListing WITH
  readable <- IF client.admin THEN Items ELSE readable \ (Blocked \ lost),
  cursor <- IF client.token = End THEN Len(listing) ELSE client.token,
  shown <- client.shown,
  disturbed <- changes > 0

KeepsPromise == Promise!Spec
=============================================================================
