---------------------------- MODULE LabelSearch ----------------------------
(***************************************************************************)
(* The label search page of devplat, appsearch.js.  A search asks for its  *)
(* labels with two requests; a click on a label asks for the first page of *)
(* its results, a click on "next" for another page.  The answers come in   *)
(* any order and change what the handlers share: the page's elements and   *)
(* the global variables query, index, type and scrollId.                   *)
(*                                                                         *)
(* The overlay covers the first screen and takes no keyboard focus, so it  *)
(* does not keep the user from acting while it is shown.                   *)
(***************************************************************************)
EXTENDS Integers, FiniteSets

CONSTANTS
  MaxSearches,  \* bound: searches until the page is loaded anew
  Slots         \* bound: requests for results that are under way at the same time

ASSUME LabelAssumption == MaxSearches \in Nat

VARIABLES
  overlay,    \* #background is shown
  enabled,    \* #submitapp is enabled
  query,      \* the number of the last search
  answer,     \* the answer to each of the two requests of a search
  flags,      \* flag1, flag2 and flag3 of each search
  labels,     \* the labels in #appresult
  messages,   \* the searches that have appended a message to #appresult
  label,      \* index and type: the label that was clicked last
  scrollId,   \* what it was returned for: a label and a query
  request,    \* requests for results under way
  results,    \* what #appresults shows: labels and queries
  next,       \* #nextapp is shown
  overtaken   \* history: a request for results was overtaken by a click or a search

vars == <<overlay, enabled, query, answer, flags, labels, messages, label, scrollId,
          request, results, next, overtaken>>

Searches == 1..MaxSearches
Parts == {"exclude", "include"}

\* A label is known by the answer that has brought it.
Labels == Searches \X Parts
Pages == [label : Labels, query : Searches]
None == <<>>                           \* no label yet, no request
First == [label |-> None, query |-> 0]  \* the scrollId "1" of a first page
Requests == [label : Labels, query : Searches, scrollId : Pages \union {First}]

TypeOK ==
  /\ overlay \in BOOLEAN /\ enabled \in BOOLEAN
  /\ query \in 0..MaxSearches
  /\ answer \in [Labels -> {"unsent", "pending", "labels", "empty", "refused", "error"}]
  /\ flags \in [Searches -> [flag1 : BOOLEAN, flag2 : BOOLEAN, flag3 : BOOLEAN]]
  /\ labels \in SUBSET Labels
  /\ messages \in SUBSET Searches
  /\ label \in Labels \union {None}
  /\ scrollId \in Pages \union {First}
  /\ request \in [Slots -> Requests \union {None}]
  /\ results \in SUBSET Pages
  /\ next \in BOOLEAN
  /\ overtaken \in BOOLEAN

LoadedWith(nextShown) ==
  /\ overlay = FALSE /\ enabled = TRUE
  /\ query = 0
  /\ answer = [l \in Labels |-> "unsent"]
  /\ flags = [s \in Searches |-> [flag1 |-> FALSE, flag2 |-> FALSE, flag3 |-> FALSE]]
  /\ labels = {} /\ messages = {}
  /\ label = None
  /\ scrollId = First
  /\ request = [i \in Slots |-> None]
  /\ results = {}
  /\ next = nextShown
  /\ overtaken = FALSE

\* Mutant: the page is loaded with its "next" button.
InitNext == LoadedWith(TRUE)

Init == LoadedWith(FALSE)

Busy == \E i \in Slots : request[i] # None

-----------------------------------------------------------------------------
(* #submitapp and its two requests *)

\* A blank query sends nothing.
Submit ==
  /\ enabled
  /\ query < MaxSearches
  /\ query' = query + 1
  /\ overlay' = TRUE
  /\ enabled' = FALSE
  /\ labels' = {} /\ messages' = {} /\ results' = {}
  /\ next' = FALSE
  /\ answer' \in {answer, [l \in Labels |-> IF l[1] = query + 1 THEN "pending"
                                                               ELSE answer[l]]}
  /\ overtaken' = (overtaken \/ Busy)
  /\ UNCHANGED <<flags, label, scrollId, request>>

\* Mutant: flag2 is forgotten.
FinishedOnly(f) == [f EXCEPT !.flag1 = TRUE]

FinishedWithout(f) == [f EXCEPT !.flag1 = TRUE, !.flag2 = TRUE]

\* success: labels, or none, or a code other than 1
Answered(l, kind) ==
  LET s == l[1]  f == flags[s] IN
  /\ answer[l] = "pending"
  /\ answer' = [answer EXCEPT ![l] = kind]
  /\ IF kind = "labels"
     THEN /\ labels' = labels \union {l}
          /\ flags' = [flags EXCEPT ![s].flag2 = FALSE, ![s].flag3 = TRUE]
          /\ UNCHANGED messages
     ELSE /\ IF f.flag1 /\ f.flag2
             THEN messages' = messages \union {s} /\ flags' = [flags EXCEPT ![s].flag3 = TRUE]
             ELSE /\ flags' = [flags EXCEPT ![s] = [FinishedWithout(f) EXCEPT !.flag3 = TRUE]]
                  /\ UNCHANGED messages
          /\ UNCHANGED labels
  /\ enabled' = TRUE
  /\ overlay' = (overlay /\ kind # "labels" /\ ~f.flag3)
  /\ UNCHANGED <<query, label, scrollId, request, results, next, overtaken>>

\* Mutant: an error leaves the overlay.
SearchErrorSilent(l) ==
  /\ answer[l] = "pending"
  /\ answer' = [answer EXCEPT ![l] = "error"]
  /\ UNCHANGED <<overlay, enabled, query, flags, labels, messages, label, scrollId,
                 request, results, next, overtaken>>

\* error
SearchError(l) ==
  /\ answer[l] = "pending"
  /\ answer' = [answer EXCEPT ![l] = "error"]
  /\ overlay' = FALSE
  /\ UNCHANGED <<enabled, query, flags, labels, messages, label, scrollId, request,
                 results, next, overtaken>>

-----------------------------------------------------------------------------
(* Clicks on a label and on #nextapp, and their requests *)

Ask(i, l, scroll) ==
  /\ request[i] = None
  /\ request' = [request EXCEPT ![i] = [label |-> l, query |-> query, scrollId |-> scroll]]
  /\ overlay' = TRUE
  /\ results' = {}
  /\ next' = FALSE
  /\ label' = l
  /\ UNCHANGED <<enabled, query, answer, flags, labels, messages>>

\* Mutant: scrollId is not reset.
ClickLabelKeeping(i) ==
  \E l \in labels :
    /\ Ask(i, l, scrollId)
    /\ overtaken' = Busy
    /\ UNCHANGED scrollId

ClickLabel(i) ==
  \E l \in labels :
    /\ Ask(i, l, First)
    /\ scrollId' = First
    /\ overtaken' = Busy

ClickNext(i) ==
  /\ next
  /\ Ask(i, label, scrollId)
  /\ overtaken' = (overtaken \/ Busy)
  /\ UNCHANGED scrollId

PageOf(r) == [label |-> r.label, query |-> r.query]

\* success; the next page is offered after a full one.
ShowPage(i) ==
  /\ request[i] # None
  /\ scrollId' = PageOf(request[i])
  /\ next' \in BOOLEAN
  /\ results' = results \union {PageOf(request[i])}
  /\ overlay' = FALSE
  /\ request' = [request EXCEPT ![i] = None]
  /\ UNCHANGED <<enabled, query, answer, flags, labels, messages, label, overtaken>>

\* A code other than 1, or error: no page is shown.
NoPage(i) ==
  /\ request[i] # None
  /\ overlay' = FALSE
  /\ request' = [request EXCEPT ![i] = None]
  /\ UNCHANGED <<enabled, query, answer, flags, labels, messages, label, scrollId,
                 results, next, overtaken>>

-----------------------------------------------------------------------------
SearchAnswer(l) ==
  \/ \E kind \in {"labels", "empty", "refused"} : Answered(l, kind)
  \/ SearchError(l)

Page(i) == ShowPage(i) \/ NoPage(i)

Next ==
  \/ Submit
  \/ \E l \in Labels : SearchAnswer(l)
  \/ \E i \in Slots : ClickLabel(i) \/ ClickNext(i) \/ Page(i)

Spec == Init /\ [][Next]_vars

\* The browser ends every request, with an answer or an error.
FairSpec ==
  /\ Spec
  /\ \A l \in Labels : WF_vars(SearchAnswer(l))
  /\ \A i \in Slots : WF_vars(Page(i))

-----------------------------------------------------------------------------
(* Properties *)

OfSearch(s) == {<<s, p>> : p \in Parts}

\* "Not found" is said of a search exactly when both its requests have been answered
\* without labels, whatever answers of other searches come between; a later search may
\* have removed it.
NotFoundIffNothing ==
  \A s \in Searches :
    /\ s \in messages => \A l \in OfSearch(s) : answer[l] \in {"empty", "refused"}
    /\ s = query /\ (\A l \in OfSearch(s) : answer[l] \in {"empty", "refused"})
         => s \in messages

\* "Next" asks for the next page of what is shown, and a request continues the label
\* and the query it is for, unless a request was overtaken since the last first page.
NextContinuesPage ==
  ~overtaken =>
    /\ results # {} => results = {[label |-> label, query |-> query]}
    /\ next => scrollId = [label |-> label, query |-> query]
    /\ \A i \in Slots : request[i] # None =>
         request[i].scrollId \in {First, PageOf(request[i])}

Blank == query > 0 /\ \A l \in OfSearch(query) : answer[l] = "unsent"
BothFailed == query > 0 /\ \A l \in OfSearch(query) : answer[l] = "error"

\* The overlay goes and the search button comes back after every action of the user,
\* however answers overlap.  A blank query blocks both, and a search both requests of
\* which have failed the button.
PageRecovers ==
  /\ overlay ~> (~overlay \/ Blank)
  /\ ~enabled ~> (enabled \/ Blank \/ BothFailed)

=============================================================================
