-------------------------- MODULE LabelSearchProofs --------------------------
(***************************************************************************)
(* Theorems of LabelSearch for any number of searches and of requests that *)
(* are under way.                                                          *)
(***************************************************************************)
EXTENDS LabelSearch, TLAPS

-----------------------------------------------------------------------------
(* Type correctness *)

LEMMA TypeInit == Init => TypeOK
<1> SUFFICES ASSUME Init PROVE TypeOK
  OBVIOUS
<1>1. query \in 0..MaxSearches
  BY LabelAssumption DEF Init, LoadedWith
<1>2. flags \in [Searches -> [flag1 : BOOLEAN, flag2 : BOOLEAN, flag3 : BOOLEAN]]
  BY DEF Init, LoadedWith
<1>3. answer \in [Labels -> {"unsent", "pending", "labels", "empty", "refused", "error"}]
  BY DEF Init, LoadedWith
<1>4. request \in [Slots -> Requests \union {None}]
  BY DEF Init, LoadedWith
<1> QED
  BY <1>1, <1>2, <1>3, <1>4 DEF Init, LoadedWith, TypeOK

LEMMA AskType ==
  ASSUME TypeOK, NEW i \in Slots, NEW l \in Labels, NEW scroll \in Pages \union {First},
         Ask(i, l, scroll), query \in Searches
  PROVE  /\ request' \in [Slots -> Requests \union {None}]
         /\ label' \in Labels \union {None}
BY DEF Ask, TypeOK, Requests

\* A search without number has no labels, so that a label is clicked for a query.
QueryIsSent ==
  /\ labels # {} \/ next \/ (\E l \in Labels : answer[l] # "unsent") => query \in Searches
  /\ label # None => query \in Searches
  /\ next => label # None

\* What each of the actions keeps.
LEMMA QueryInit == Init => QueryIsSent
BY LabelAssumption DEF Init, LoadedWith, QueryIsSent

LEMMA SubmitType == ASSUME TypeOK, QueryIsSent, Submit PROVE TypeOK' /\ QueryIsSent'
<1> USE LabelAssumption
<1>1. query' \in Searches
  BY DEF Submit, TypeOK, Searches
<1>2. answer' \in [Labels -> {"unsent", "pending", "labels", "empty", "refused", "error"}]
  BY DEF Submit, TypeOK
<1>3. query' \in 0..MaxSearches
  BY <1>1 DEF Searches
<1> QED
  BY <1>1, <1>2, <1>3 DEF Submit, TypeOK, QueryIsSent

LEMMA AnswerType ==
  ASSUME TypeOK, QueryIsSent, NEW l \in Labels, SearchAnswer(l)
  PROVE  TypeOK' /\ QueryIsSent'
<1>1. ASSUME NEW kind \in {"labels", "empty", "refused"}, Answered(l, kind)
      PROVE  TypeOK' /\ QueryIsSent'
  <2>1. l[1] \in Searches /\ answer[l] = "pending" /\ query \in Searches
    BY <1>1 DEF Labels, Answered, QueryIsSent
  <2>2. answer' \in [Labels -> {"unsent", "pending", "labels", "empty", "refused", "error"}]
    BY <1>1 DEF Answered, TypeOK
  <2>3. flags' \in [Searches -> [flag1 : BOOLEAN, flag2 : BOOLEAN, flag3 : BOOLEAN]]
    <3> DEFINE Flags == [flag1 : BOOLEAN, flag2 : BOOLEAN, flag3 : BOOLEAN]
               f == flags[l[1]]
    <3>1. f \in Flags
      BY <2>1 DEF TypeOK
    <3>2. /\ [f EXCEPT !.flag2 = FALSE, !.flag3 = TRUE] \in Flags
          /\ [f EXCEPT !.flag3 = TRUE] \in Flags
          /\ [FinishedWithout(f) EXCEPT !.flag3 = TRUE] \in Flags
      BY <3>1 DEF FinishedWithout
    <3>3. \/ flags' = [flags EXCEPT ![l[1]] = [f EXCEPT !.flag2 = FALSE, !.flag3 = TRUE]]
          \/ flags' = [flags EXCEPT ![l[1]] = [f EXCEPT !.flag3 = TRUE]]
          \/ flags' = [flags EXCEPT ![l[1]] = [FinishedWithout(f) EXCEPT !.flag3 = TRUE]]
      BY <1>1 DEF Answered
    <3> HIDE DEF Flags, f
    <3>4. flags \in [Searches -> Flags]
      BY DEF TypeOK, Flags
    <3>5. flags' \in [Searches -> Flags]
      BY <3>2, <3>3, <3>4
    <3> QED
      BY <3>5 DEF Flags
  <2>4. labels' \in SUBSET Labels /\ messages' \in SUBSET Searches /\ overlay' \in BOOLEAN
    BY <1>1, <2>1 DEF Answered, TypeOK
  <2>5. UNCHANGED <<query, label, scrollId, request, results, next, overtaken>> /\ enabled'
    BY <1>1 DEF Answered
  <2> QED
    BY <2>1, <2>2, <2>3, <2>4, <2>5 DEF TypeOK, QueryIsSent
<1>2. ASSUME SearchError(l) PROVE TypeOK' /\ QueryIsSent'
  BY <1>2 DEF SearchError, TypeOK, QueryIsSent
<1> QED
  BY <1>1, <1>2 DEF SearchAnswer

LEMMA ClickType ==
  ASSUME TypeOK, QueryIsSent, NEW i \in Slots, ClickLabel(i) \/ ClickNext(i)
  PROVE  TypeOK' /\ QueryIsSent'
<1>1. CASE ClickLabel(i)
  <2>1. PICK l \in labels : Ask(i, l, First)
    BY <1>1 DEF ClickLabel
  <2>2. l \in Labels /\ query \in Searches
    BY <2>1 DEF TypeOK, QueryIsSent
  <2>3. request' \in [Slots -> Requests \union {None}] /\ label' \in Labels \union {None}
    BY <2>1, <2>2, AskType
  <2>4. overtaken' \in BOOLEAN /\ scrollId' = First
    BY <1>1 DEF ClickLabel, Busy
  <2> QED
    BY <2>1, <2>2, <2>3, <2>4 DEF Ask, TypeOK, QueryIsSent
<1>2. CASE ClickNext(i)
  <2>1. Ask(i, label, scrollId) /\ next /\ UNCHANGED scrollId
    BY <1>2 DEF ClickNext
  <2>2. label \in Labels /\ query \in Searches
    BY <2>1 DEF TypeOK, QueryIsSent
  <2>3. request' \in [Slots -> Requests \union {None}] /\ label' \in Labels \union {None}
    BY <2>1, <2>2, AskType DEF TypeOK
  <2>4. overtaken' \in BOOLEAN
    BY <1>2 DEF ClickNext, Busy, TypeOK
  <2> QED
    BY <2>1, <2>2, <2>3, <2>4 DEF Ask, TypeOK, QueryIsSent
<1> QED
  BY <1>1, <1>2

LEMMA PageType ==
  ASSUME TypeOK, QueryIsSent, NEW i \in Slots, Page(i), label # None
  PROVE  TypeOK' /\ QueryIsSent'
<1>1. CASE ShowPage(i)
  <2>1. request[i] \in Requests
    BY <1>1 DEF ShowPage, TypeOK
  <2>2. PageOf(request[i]) \in Pages
    BY <2>1 DEF PageOf, Pages, Requests
  <2>3. request' \in [Slots -> Requests \union {None}]
    BY <1>1 DEF ShowPage, TypeOK
  <2> QED
    BY <1>1, <2>2, <2>3 DEF ShowPage, TypeOK, QueryIsSent
<1>2. CASE NoPage(i)
  BY <1>2 DEF NoPage, TypeOK, QueryIsSent
<1> QED
  BY <1>1, <1>2 DEF Page

\* A request under way is for a label that was clicked.
Clicked == (\E i \in Slots : request[i] # None) => label # None

TypeInv == TypeOK /\ QueryIsSent /\ Clicked

LEMMA NoneIsNoLabel == None \notin Labels
BY DEF None, Labels

LEMMA TypeStep == TypeInv /\ [Next]_vars => TypeInv'
<1> SUFFICES ASSUME TypeOK, QueryIsSent, Clicked, [Next]_vars PROVE TypeInv'
  BY DEF TypeInv
<1>1. CASE Submit
  BY <1>1, SubmitType DEF TypeInv, Clicked, Submit
<1>2. ASSUME NEW l \in Labels, SearchAnswer(l) PROVE TypeInv'
  BY <1>2, AnswerType DEF TypeInv, Clicked, SearchAnswer, Answered, SearchError
<1>3. ASSUME NEW i \in Slots, ClickLabel(i) \/ ClickNext(i) PROVE TypeInv'
  <2>1. label' # None
    BY <1>3, NoneIsNoLabel DEF ClickLabel, ClickNext, Ask, TypeOK, QueryIsSent
  <2> QED
    BY <1>3, <2>1, ClickType DEF TypeInv, Clicked
<1>4. ASSUME NEW i \in Slots, Page(i) PROVE TypeInv'
  <2>1. label # None /\ label' = label
    BY <1>4 DEF Page, ShowPage, NoPage, Clicked
  <2> QED
    BY <1>4, <2>1, PageType DEF TypeInv, Clicked
<1>5. CASE UNCHANGED vars
  BY <1>5 DEF vars, TypeInv, TypeOK, QueryIsSent, Clicked
<1> QED
  BY <1>1, <1>2, <1>3, <1>4, <1>5 DEF Next

\* The handlers keep every variable of the page in its type.
THEOREM TypeCorrect == Spec => []TypeOK
<1>1. Init => TypeInv
  BY TypeInit, QueryInit DEF TypeInv, Clicked, Init, LoadedWith
<1> QED
  BY <1>1, TypeStep, PTL DEF Spec, TypeInv

-----------------------------------------------------------------------------
(* "Not found" *)

Done(l) == answer[l] \in {"empty", "refused"}

\* A search that has not been made has no answers.
Unsent(s) == s > query => \A l \in OfSearch(s) : answer[l] = "unsent"

\* flag1: one of the two answers has no labels; flag2: and the other may have none.
Marked(s) ==
  /\ flags[s].flag1 <=> \E l \in OfSearch(s) : Done(l)
  /\ \A l, m \in OfSearch(s) :
       l # m /\ Done(l) /\ answer[m] = "pending" => flags[s].flag2

NotFound(s) ==
  /\ s \in messages => \A l \in OfSearch(s) : Done(l)
  /\ s = query /\ (\A l \in OfSearch(s) : Done(l)) => s \in messages

SearchInv == \A s \in Searches : Unsent(s) /\ Marked(s) /\ NotFound(s)

LEMMA PartsOfSearch ==
  ASSUME NEW l \in Labels
  PROVE  /\ l[1] \in Searches
         /\ l \in OfSearch(l[1])
         /\ \A s \in Searches : l \in OfSearch(s) => s = l[1]
         /\ \E m \in OfSearch(l[1]) : m # l /\ OfSearch(l[1]) = {l, m}
<1>1. PICK s \in Searches, p \in Parts : l = <<s, p>>
  BY DEF Labels
<1>2. PICK q \in Parts : q # p /\ Parts = {p, q}
  BY DEF Parts
<1>3. OfSearch(s) = {<<s, p>>, <<s, q>>} /\ <<s, q>> # <<s, p>>
  BY <1>2 DEF OfSearch
<1>4. \A t \in Searches : l \in OfSearch(t) => t = s
  BY <1>1 DEF OfSearch
<1> QED
  BY <1>1, <1>3, <1>4

LEMMA OfSearchIsLabels == \A s \in Searches : OfSearch(s) \subseteq Labels
BY DEF OfSearch, Labels

LEMMA SearchInit == Init => SearchInv
BY OfSearchIsLabels, LabelAssumption
   DEF Init, LoadedWith, SearchInv, Unsent, Marked, NotFound, Done, Searches

LEMMA SubmitStep == ASSUME TypeOK, SearchInv, Submit PROVE SearchInv'
<1> SUFFICES ASSUME NEW s \in Searches PROVE Unsent(s)' /\ Marked(s)' /\ NotFound(s)'
  BY DEF SearchInv
<1>1. query \in Int /\ s \in Int /\ query' = query + 1 /\ messages' = {} /\ flags' = flags
  BY LabelAssumption DEF Submit, TypeOK, Searches
<1>2. Unsent(s) /\ Marked(s)
  BY DEF SearchInv
<1>3. ASSUME NEW l \in OfSearch(s) PROVE l \in Labels /\ l[1] = s
  BY PartsOfSearch, OfSearchIsLabels DEF OfSearch
<1>4. CASE s = query + 1
  <2>1. \A l \in OfSearch(s) : answer'[l] \in {"unsent", "pending"} /\ answer[l] = "unsent"
    BY <1>1, <1>2, <1>3, <1>4 DEF Submit, Unsent
  <2>2. \A l \in OfSearch(s) : ~Done(l) /\ ~Done(l)'
    BY <2>1 DEF Done
  <2>3. \E l \in OfSearch(s) : TRUE
    BY DEF OfSearch, Parts
  <2>4. Unsent(s)'
    BY <1>1, <1>4 DEF Unsent
  <2>5. Marked(s)'
    BY <1>1, <1>2, <2>2 DEF Marked
  <2>6. NotFound(s)'
    BY <1>1, <2>2, <2>3 DEF NotFound
  <2> QED
    BY <2>4, <2>5, <2>6
<1>5. CASE s # query + 1
  <2>1. \A l \in OfSearch(s) : answer'[l] = answer[l]
    BY <1>3, <1>5 DEF Submit
  <2> QED
    BY <1>1, <1>2, <1>5, <2>1 DEF Unsent, Marked, NotFound, Done
<1> QED
  BY <1>4, <1>5

\* An answer with or without labels marks its search and no other.
LEMMA AnswerMarks ==
  ASSUME TypeOK, NEW l \in Labels, NEW kind \in {"labels", "empty", "refused"},
         Answered(l, kind)
  PROVE  LET s == l[1] IN
         /\ \A t \in Searches \ {s} : flags'[t] = flags[t]
         /\ kind = "labels" => /\ flags'[s].flag1 = flags[s].flag1
                               /\ messages' = messages
         /\ kind # "labels" =>
              IF flags[s].flag1 /\ flags[s].flag2
              THEN /\ flags'[s].flag1
                   /\ flags'[s].flag2
                   /\ messages' = messages \union {s}
              ELSE flags'[s].flag1 /\ flags'[s].flag2 /\ messages' = messages
<1> DEFINE s == l[1]
           Flags == [flag1 : BOOLEAN, flag2 : BOOLEAN, flag3 : BOOLEAN]
           f == flags[s]
<1>1. s \in Searches /\ f \in Flags /\ flags \in [Searches -> Flags]
  BY PartsOfSearch DEF TypeOK
<1>2. /\ [f EXCEPT !.flag2 = FALSE, !.flag3 = TRUE].flag1 = f.flag1
      /\ [f EXCEPT !.flag3 = TRUE].flag1 = f.flag1
      /\ [f EXCEPT !.flag3 = TRUE].flag2 = f.flag2
      /\ [FinishedWithout(f) EXCEPT !.flag3 = TRUE].flag1
      /\ [FinishedWithout(f) EXCEPT !.flag3 = TRUE].flag2
  BY <1>1 DEF FinishedWithout
<1>3. kind = "labels" =>
        /\ flags' = [flags EXCEPT ![s] = [f EXCEPT !.flag2 = FALSE, !.flag3 = TRUE]]
        /\ messages' = messages
  BY DEF Answered
<1>4. kind # "labels" =>
        IF f.flag1 /\ f.flag2
        THEN /\ flags' = [flags EXCEPT ![s] = [f EXCEPT !.flag3 = TRUE]]
             /\ messages' = messages \union {s}
        ELSE /\ flags' = [flags EXCEPT ![s] = [FinishedWithout(f) EXCEPT !.flag3 = TRUE]]
             /\ messages' = messages
  BY DEF Answered
<1> HIDE DEF Flags, f, s
<1>5. \A t \in Searches \ {s} : flags'[t] = flags[t]
  BY <1>1, <1>3, <1>4
<1>6. kind = "labels" => flags'[s].flag1 = f.flag1 /\ messages' = messages
  BY <1>1, <1>2, <1>3
<1>7. kind # "labels" =>
        IF f.flag1 /\ f.flag2
        THEN flags'[s].flag1 /\ flags'[s].flag2 /\ messages' = messages \union {s}
        ELSE flags'[s].flag1 /\ flags'[s].flag2 /\ messages' = messages
  BY <1>1, <1>2, <1>4
<1> QED
  BY <1>5, <1>6, <1>7 DEF f, s

LEMMA AnsweredStep ==
  ASSUME TypeOK, SearchInv, NEW l \in Labels, NEW kind \in {"labels", "empty", "refused"},
         Answered(l, kind)
  PROVE  SearchInv'
<1> SUFFICES ASSUME NEW t \in Searches PROVE Unsent(t)' /\ Marked(t)' /\ NotFound(t)'
  BY DEF SearchInv
<1> DEFINE s == l[1]
<1>1. Unsent(t) /\ Marked(t) /\ NotFound(t)
  BY DEF SearchInv
<1>2. answer' = [answer EXCEPT ![l] = kind] /\ answer[l] = "pending" /\ query' = query
  BY DEF Answered
<1>3. answer \in [Labels -> {"unsent", "pending", "labels", "empty", "refused", "error"}]
  BY DEF TypeOK
<1>4. s \in Searches /\ l \in OfSearch(s)
  BY PartsOfSearch
<1>5. CASE t # s
  <2>1. \A k \in OfSearch(t) : k \in Labels /\ k # l
    BY <1>5, PartsOfSearch, OfSearchIsLabels
  <2>2. \A k \in OfSearch(t) : answer'[k] = answer[k]
    BY <1>2, <1>3, <2>1
  <2>3. flags'[t] = flags[t] /\ (t \in messages' <=> t \in messages)
    BY <1>5, AnswerMarks
  <2> QED
    BY <1>1, <1>2, <2>2, <2>3 DEF Unsent, Marked, NotFound, Done
<1>6. CASE t = s
  <2>1. PICK m \in OfSearch(s) : m # l /\ OfSearch(s) = {l, m}
    BY PartsOfSearch
  <2>2. answer'[l] = kind /\ answer'[m] = answer[m]
    BY <1>2, <1>3, <1>4, <2>1, OfSearchIsLabels
  <2>3. Unsent(t)'
    BY <1>1, <1>2, <1>4, <1>6 DEF Unsent
  <2>4. flags[s].flag1 <=> Done(m)
    BY <1>1, <1>2, <1>6, <2>1 DEF Marked, Done
  <2>5. Done(m) => flags[s].flag2
    BY <1>1, <1>2, <1>4, <1>6, <2>1 DEF Marked
  <2>6. s \notin messages
    BY <1>1, <1>2, <1>4, <1>6 DEF NotFound, Done
  <2>7. CASE kind = "labels"
    <3>1. flags'[s].flag1 = flags[s].flag1 /\ messages' = messages
      BY <2>7, AnswerMarks
    <3>2. Marked(t)'
      BY <1>6, <2>1, <2>2, <2>4, <2>7, <3>1 DEF Marked, Done
    <3>3. NotFound(t)'
      BY <1>6, <2>1, <2>2, <2>6, <2>7, <3>1 DEF NotFound, Done
    <3> QED
      BY <2>3, <3>2, <3>3
  <2>8. CASE kind # "labels"
    <3>1. /\ flags'[s].flag1 /\ flags'[s].flag2
          /\ Done(m) => messages' = messages \union {s}
          /\ ~Done(m) => messages' = messages
      BY <2>4, <2>5, <2>8, AnswerMarks
    <3>2. Marked(t)'
      BY <1>6, <2>1, <2>2, <2>8, <3>1 DEF Marked, Done
    <3>3. NotFound(t)'
      BY <1>6, <2>1, <2>2, <2>6, <2>8, <3>1 DEF NotFound, Done
    <3> QED
      BY <2>3, <3>2, <3>3
  <2> QED
    BY <2>7, <2>8
<1> QED
  BY <1>5, <1>6

LEMMA ErrorStep ==
  ASSUME TypeOK, SearchInv, NEW l \in Labels, SearchError(l)
  PROVE  SearchInv'
<1> SUFFICES ASSUME NEW s \in Searches PROVE Unsent(s)' /\ Marked(s)' /\ NotFound(s)'
  BY DEF SearchInv
<1>1. Unsent(s) /\ Marked(s) /\ NotFound(s)
  BY DEF SearchInv
<1>2. UNCHANGED <<query, flags, messages>>
  BY DEF SearchError
<1>3. \A k \in OfSearch(s) :
        \/ answer'[k] = answer[k]
        \/ answer[k] = "pending" /\ answer'[k] = "error"
  BY OfSearchIsLabels DEF SearchError, TypeOK
<1> QED
  BY <1>1, <1>2, <1>3 DEF Unsent, Marked, NotFound, Done

LEMMA SearchStep == TypeOK /\ SearchInv /\ [Next]_vars => SearchInv'
<1> SUFFICES ASSUME TypeOK, SearchInv, [Next]_vars PROVE SearchInv'
  OBVIOUS
<1>1. CASE Submit
  BY <1>1, SubmitStep
<1>2. ASSUME NEW l \in Labels, SearchAnswer(l) PROVE SearchInv'
  BY <1>2, AnsweredStep, ErrorStep DEF SearchAnswer
<1>3. ASSUME UNCHANGED <<query, answer, flags, messages>> PROVE SearchInv'
  BY <1>3 DEF SearchInv, Unsent, Marked, NotFound, Done
<1>4. ASSUME NEW i \in Slots, ClickLabel(i) \/ ClickNext(i) \/ Page(i) PROVE SearchInv'
  BY <1>3, <1>4 DEF ClickLabel, ClickNext, Ask, Page, ShowPage, NoPage
<1>5. CASE UNCHANGED vars
  BY <1>3, <1>5 DEF vars
<1> QED
  BY <1>1, <1>2, <1>4, <1>5 DEF Next

\* The page says "not found" of the last search exactly when both its requests have
\* been answered without labels: flag1 and flag2 count the answers right in any order.
THEOREM NotFoundIsTrue == Spec => []NotFoundIffNothing
<1>1. TypeInv /\ SearchInv /\ [Next]_vars => (TypeInv /\ SearchInv)'
  BY TypeStep, SearchStep DEF TypeInv
<1>2. Init => TypeInv /\ SearchInv
  BY TypeInit, QueryInit, SearchInit DEF TypeInv, Clicked, Init, LoadedWith
<1>3. SearchInv => NotFoundIffNothing
  BY DEF SearchInv, NotFound, Done, NotFoundIffNothing
<1> QED
  BY <1>1, <1>2, <1>3, PTL DEF Spec

-----------------------------------------------------------------------------
(* Pages *)

\* Unless it was overtaken, a request under way is the only one, and it is for the
\* label and the query of the page.
Undisturbed ==
  ~overtaken =>
    /\ results \subseteq {[label |-> label, query |-> query]}
    /\ next => scrollId = [label |-> label, query |-> query]
    /\ \A i \in Slots : request[i] # None =>
         /\ PageOf(request[i]) = [label |-> label, query |-> query]
         /\ request[i].scrollId \in {First, PageOf(request[i])}
         /\ \A j \in Slots : request[j] # None => j = i

LEMMA PageStep == TypeOK /\ Undisturbed /\ [Next]_vars => Undisturbed'
<1> SUFFICES ASSUME TypeOK, Undisturbed, [Next]_vars, ~overtaken' PROVE Undisturbed'
  BY DEF Undisturbed
<1>1. CASE Submit
  BY <1>1 DEF Submit, Busy, Undisturbed
<1>2. ASSUME UNCHANGED <<query, label, scrollId, request, results, next, overtaken>>
      PROVE  Undisturbed'
  BY <1>2 DEF Undisturbed
<1>3. ASSUME NEW l \in Labels, SearchAnswer(l) PROVE Undisturbed'
  BY <1>2, <1>3 DEF SearchAnswer, Answered, SearchError
\* A first page, or the one after what scrollId was returned for
<1>4. ASSUME NEW i \in Slots, NEW l, NEW scroll, Ask(i, l, scroll), ~Busy,
             scroll \in {First, [label |-> l, query |-> query]}
      PROVE  Undisturbed'
  <2>1. \A j \in Slots \ {i} : request'[j] = None
    BY <1>4 DEF Ask, Busy, TypeOK
  <2>2. request'[i] = [label |-> l, query |-> query, scrollId |-> scroll]
    BY <1>4 DEF Ask, TypeOK
  <2>3. results' = {} /\ ~next' /\ label' = l /\ query' = query
    BY <1>4 DEF Ask
  <2>4. /\ PageOf(request'[i]) = [label |-> l, query |-> query]
        /\ request'[i].scrollId = scroll
    BY <2>2 DEF PageOf
  <2> QED
    BY <1>4, <2>1, <2>3, <2>4 DEF Undisturbed, PageOf
<1>5. ASSUME NEW i \in Slots, ClickLabel(i) PROVE Undisturbed'
  BY <1>4, <1>5 DEF ClickLabel
<1>6. ASSUME NEW i \in Slots, ClickNext(i) PROVE Undisturbed'
  <2>1. Ask(i, label, scrollId) /\ ~Busy /\ ~overtaken /\ next
    BY <1>6 DEF ClickNext
  <2>2. scrollId = [label |-> label, query |-> query]
    BY <2>1 DEF Undisturbed
  <2> QED
    BY <1>4, <2>1, <2>2
<1>7. ASSUME NEW i \in Slots, Page(i) PROVE Undisturbed'
  <2>1. request[i] # None /\ request' = [request EXCEPT ![i] = None]
    BY <1>7 DEF Page, ShowPage, NoPage
  <2>2. UNCHANGED <<label, query, overtaken>>
    BY <1>7 DEF Page, ShowPage, NoPage
  <2>3. /\ PageOf(request[i]) = [label |-> label, query |-> query]
        /\ \A j \in Slots : request[j] # None => j = i
    BY <2>1, <2>2 DEF Undisturbed
  <2>4. \A j \in Slots : request'[j] = None
    BY <2>1, <2>3 DEF TypeOK
  <2>5. /\ results' \subseteq {[label |-> label, query |-> query]}
        /\ next' => scrollId' = [label |-> label, query |-> query]
    BY <1>7, <2>2, <2>3 DEF Page, ShowPage, NoPage, Undisturbed
  <2> QED
    BY <2>2, <2>4, <2>5 DEF Undisturbed
<1>8. CASE UNCHANGED vars
  BY <1>2, <1>8 DEF vars
<1> QED
  BY <1>1, <1>3, <1>5, <1>6, <1>7, <1>8 DEF Next

\* "Next" continues the page that is shown, for the label and the query it shows,
\* unless answers were overtaken.
THEOREM NextContinues == Spec => []NextContinuesPage
<1>1. TypeInv /\ Undisturbed /\ [Next]_vars => (TypeInv /\ Undisturbed)'
  BY TypeStep, PageStep DEF TypeInv
<1>2. Init => TypeInv /\ Undisturbed
  BY TypeInit, QueryInit DEF TypeInv, Clicked, Undisturbed, Init, LoadedWith
<1>3. Undisturbed => NextContinuesPage
  BY DEF Undisturbed, NextContinuesPage
<1> QED
  BY <1>1, <1>2, <1>3, PTL DEF Spec

-----------------------------------------------------------------------------
(* What the overlay and the button wait for *)

Pending(l) == answer[l] = "pending"

\* Both requests of a search are sent, or none; flag3 tells that one was answered.
Sent(s) ==
  /\ \A l, m \in OfSearch(s) : answer[l] = "unsent" => answer[m] = "unsent"
  /\ \A l \in OfSearch(s) :
       answer[l] \in {"labels", "empty", "refused"} => flags[s].flag3

\* Without a request for results, the overlay is there for an answer to the last
\* search, which is the first one to end.
OverlayWaits ==
  overlay => \/ Blank
             \/ Busy
             \/ /\ \A l \in OfSearch(query) : answer[l] # "error"
                /\ \E l \in OfSearch(query) : Pending(l)

ButtonWaits ==
  ~enabled => \/ Blank
              \/ /\ query > 0
                 /\ \A l \in OfSearch(query) : answer[l] \in {"pending", "error"}

WaitInv == (\A s \in Searches : Sent(s)) /\ OverlayWaits /\ ButtonWaits

LEMMA WaitInit == Init => WaitInv
BY OfSearchIsLabels DEF Init, LoadedWith, WaitInv, Sent, OverlayWaits, ButtonWaits

LEMMA SubmitWaits ==
  ASSUME TypeOK, SearchInv, WaitInv, Submit
  PROVE  WaitInv'
<1>1. /\ query' = query + 1 /\ query' \in Searches /\ query' > 0 /\ query' > query
      /\ flags' = flags
  BY LabelAssumption DEF Submit, TypeOK, Searches
<1>2. \A s \in Searches : OfSearch(s) \subseteq Labels /\ \A l \in OfSearch(s) : l[1] = s
  BY OfSearchIsLabels, PartsOfSearch
<1>3. \A l \in OfSearch(query') : answer[l] = "unsent"
  BY <1>1 DEF SearchInv, Unsent
<1>4. /\ answer' = answer \/ \A l \in OfSearch(query') : answer'[l] = "pending"
      /\ \A s \in Searches \ {query'} : \A l \in OfSearch(s) : answer'[l] = answer[l]
  BY <1>1, <1>2 DEF Submit
<1>5. ASSUME NEW s \in Searches PROVE Sent(s)'
  <2>1. CASE s = query'
    BY <1>3, <1>4, <2>1 DEF Sent
  <2>2. CASE s # query'
    BY <1>1, <1>4, <2>2 DEF Sent, WaitInv
  <2> QED
    BY <2>1, <2>2
<1>6. Blank' \/ \A l \in OfSearch(query') : answer'[l] = "pending"
  BY <1>1, <1>3, <1>4 DEF Blank
<1>7. \E l \in OfSearch(query') : TRUE
  BY DEF OfSearch, Parts
<1>8. OverlayWaits' /\ ButtonWaits'
  BY <1>1, <1>6, <1>7 DEF OverlayWaits, ButtonWaits, Pending
<1> QED
  BY <1>5, <1>8 DEF WaitInv

LEMMA AnsweredWaits ==
  ASSUME TypeOK, SearchInv, WaitInv,
         NEW l \in Labels, NEW kind \in {"labels", "empty", "refused"}, Answered(l, kind)
  PROVE  WaitInv'
<1> DEFINE s == l[1]
<1>1. /\ answer' = [answer EXCEPT ![l] = kind] /\ answer[l] = "pending"
      /\ enabled' /\ query' = query /\ request' = request
      /\ overlay' = (overlay /\ kind # "labels" /\ ~flags[s].flag3)
  BY DEF Answered
<1>2. answer \in [Labels -> {"unsent", "pending", "labels", "empty", "refused", "error"}]
  BY DEF TypeOK
<1>3. PICK m \in OfSearch(s) : m # l /\ OfSearch(s) = {l, m}
  BY PartsOfSearch
<1>4. /\ s \in Searches /\ l \in OfSearch(s) /\ m \in Labels
      /\ \A t \in Searches \ {s} : \A k \in OfSearch(t) : k \in Labels /\ k # l
  BY <1>3, PartsOfSearch, OfSearchIsLabels
<1>5. /\ answer'[l] = kind /\ answer'[m] = answer[m]
      /\ \A t \in Searches \ {s} : \A k \in OfSearch(t) : answer'[k] = answer[k]
  BY <1>1, <1>2, <1>3, <1>4
<1>6. flags'[s].flag3 /\ \A t \in Searches \ {s} : flags'[t] = flags[t]
  <2> DEFINE Flags == [flag1 : BOOLEAN, flag2 : BOOLEAN, flag3 : BOOLEAN]
             f == flags[s]
  <2>1. f \in Flags /\ flags \in [Searches -> Flags]
    BY <1>4 DEF TypeOK
  <2>2. /\ [f EXCEPT !.flag2 = FALSE, !.flag3 = TRUE].flag3
        /\ [f EXCEPT !.flag3 = TRUE].flag3
        /\ [FinishedWithout(f) EXCEPT !.flag3 = TRUE].flag3
    BY <2>1 DEF FinishedWithout
  <2>3. \/ flags' = [flags EXCEPT ![s] = [f EXCEPT !.flag2 = FALSE, !.flag3 = TRUE]]
        \/ flags' = [flags EXCEPT ![s] = [f EXCEPT !.flag3 = TRUE]]
        \/ flags' = [flags EXCEPT ![s] = [FinishedWithout(f) EXCEPT !.flag3 = TRUE]]
    BY DEF Answered
  <2> HIDE DEF Flags, f, s
  <2> QED
    BY <1>4, <2>1, <2>2, <2>3
<1>7. ASSUME NEW t \in Searches PROVE Sent(t)'
  <2>1. CASE t = s
    <3>1. answer[m] # "unsent"
      BY <1>1, <1>3, <1>4 DEF WaitInv, Sent
    <3> QED
      BY <1>3, <1>5, <1>6, <2>1, <3>1 DEF Sent
  <2>2. CASE t # s
    BY <1>5, <1>6, <2>2 DEF WaitInv, Sent
  <2> QED
    BY <2>1, <2>2
<1>8. OverlayWaits'
  <2> SUFFICES ASSUME overlay, kind # "labels", ~flags[s].flag3
               PROVE  OverlayWaits'
    BY <1>1 DEF OverlayWaits
  <2>1. query \in Searches
    BY <1>1, <1>4, LabelAssumption DEF SearchInv, Unsent, TypeOK, Searches
  <2>2. CASE Busy
    BY <1>1, <2>2 DEF OverlayWaits, Busy
  <2>3. CASE query # s
    BY <1>1, <1>5, <2>1, <2>3 DEF WaitInv, OverlayWaits, Blank, Pending, Busy
  <2>4. CASE ~Busy /\ query = s
    <3>1. answer[m] # "error"
      BY <1>1, <1>3, <1>4, <2>4 DEF WaitInv, OverlayWaits, Blank
    <3>2. answer[m] \notin {"labels", "empty", "refused"}
      BY <1>4 DEF WaitInv, Sent
    <3>3. answer[m] # "unsent"
      BY <1>1, <1>3, <1>4 DEF WaitInv, Sent
    <3>4. answer[m] = "pending"
      BY <1>2, <1>4, <3>1, <3>2, <3>3
    <3> QED
      BY <1>1, <1>3, <1>5, <2>4, <3>4 DEF OverlayWaits, Pending
  <2> QED
    BY <2>2, <2>3, <2>4
<1> QED
  BY <1>1, <1>7, <1>8 DEF WaitInv, ButtonWaits

LEMMA ErrorWaits ==
  ASSUME TypeOK, WaitInv, NEW l \in Labels, SearchError(l)
  PROVE  WaitInv'
<1>1. ~overlay' /\ UNCHANGED <<enabled, query, flags>>
  BY DEF SearchError
<1>2. \A k \in Labels :
        \/ answer'[k] = answer[k]
        \/ answer[k] = "pending" /\ answer'[k] = "error"
  <2>1. answer \in [Labels -> {"unsent", "pending", "labels", "empty", "refused", "error"}]
    BY DEF TypeOK
  <2>2. answer[l] = "pending" /\ answer' = [answer EXCEPT ![l] = "error"]
    BY DEF SearchError
  <2> HIDE DEF Labels
  <2>3. answer'[l] = "error" /\ \A k \in Labels \ {l} : answer'[k] = answer[k]
    BY <2>1, <2>2
  <2> QED
    BY <2>2, <2>3
<1>3. \A s \in Searches : Sent(s)'
  BY <1>1, <1>2, OfSearchIsLabels DEF WaitInv, Sent
<1>4. ButtonWaits'
  <2> SUFFICES ASSUME ~enabled PROVE ButtonWaits'
    BY <1>1 DEF ButtonWaits
  <2>1. query > 0 /\ query \in Searches
    BY LabelAssumption DEF WaitInv, ButtonWaits, Blank, TypeOK, Searches
  <2>2. OfSearch(query) \subseteq Labels
    BY <2>1, OfSearchIsLabels
  <2> QED
    BY <1>1, <1>2, <2>1, <2>2 DEF WaitInv, ButtonWaits, Blank
<1> QED
  BY <1>1, <1>3, <1>4 DEF WaitInv, OverlayWaits

LEMMA WaitStep == TypeOK /\ SearchInv /\ WaitInv /\ [Next]_vars => WaitInv'
<1> SUFFICES ASSUME TypeOK, SearchInv, WaitInv, [Next]_vars PROVE WaitInv'
  OBVIOUS
<1>1. CASE Submit
  BY <1>1, SubmitWaits
<1>2. ASSUME NEW l \in Labels, SearchAnswer(l) PROVE WaitInv'
  BY <1>2, AnsweredWaits, ErrorWaits DEF SearchAnswer
<1>3. ASSUME UNCHANGED <<enabled, query, answer, flags>>,
             overlay' => Busy' \/ (overlay /\ request' = request)
      PROVE  WaitInv'
  BY <1>3 DEF WaitInv, Sent, OverlayWaits, ButtonWaits, Blank, Pending, Busy
<1>4. ASSUME NEW i \in Slots, ClickLabel(i) \/ ClickNext(i) PROVE WaitInv'
  <2>1. PICK l, scroll : Ask(i, l, scroll)
    BY <1>4 DEF ClickLabel, ClickNext
  <2>2. request'[i] = [label |-> l, query |-> query, scrollId |-> scroll]
    BY <2>1 DEF Ask, TypeOK
  <2>3. request'[i] # None
    <3>1. DOMAIN request'[i] # DOMAIN None
      <4>1. "label" \in DOMAIN request'[i]
        BY <2>2
      <4>2. DOMAIN None = {}
        BY DEF None
      <4> QED
        BY <4>1, <4>2
    <3> QED
      BY <3>1
  <2>4. UNCHANGED <<enabled, query, answer, flags>> /\ Busy'
    BY <2>1, <2>3 DEF Ask, Busy
  <2> QED
    BY <1>3, <2>4
<1>5. ASSUME NEW i \in Slots, Page(i) PROVE WaitInv'
  BY <1>3, <1>5 DEF Page, ShowPage, NoPage
<1>6. CASE UNCHANGED vars
  BY <1>3, <1>6 DEF vars
<1> QED
  BY <1>1, <1>2, <1>4, <1>5, <1>6 DEF Next

\* Whenever the overlay is shown, a request is under way whose end takes it away, and
\* whenever the search button is disabled one that may enable it; but for a blank
\* query, and for a search both requests of which have failed.
RecoveryIsDue ==
  /\ overlay => Blank \/ Busy \/ \E l \in OfSearch(query) : Pending(l)
  /\ ~enabled => Blank \/ BothFailed \/ \E l \in OfSearch(query) : Pending(l)

\* In whatever order the answers come, the page never waits for nothing.
THEOREM PageWaitsForSomething == Spec => []RecoveryIsDue
<1>1. Init => TypeInv /\ SearchInv /\ WaitInv
  BY TypeInit, QueryInit, SearchInit, WaitInit DEF TypeInv, Clicked, Init, LoadedWith
<1>2. TypeInv /\ SearchInv /\ WaitInv /\ [Next]_vars => (TypeInv /\ SearchInv /\ WaitInv)'
  BY TypeStep, SearchStep, WaitStep DEF TypeInv
<1>3. WaitInv => RecoveryIsDue
  BY DEF WaitInv, OverlayWaits, ButtonWaits, RecoveryIsDue, BothFailed, Pending
<1> QED
  BY <1>1, <1>2, <1>3, PTL DEF Spec

=============================================================================
