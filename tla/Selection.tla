----------------------------- MODULE Selection -----------------------------
(***************************************************************************)
(* What the user of the web client has selected and searched for           *)
(* (packages/web-ui/src/stores/graph/interactionStore.ts and               *)
(* components/sidebar/SearchPanel.vue).  A search is known by its query,   *)
(* and so are its results.                                                 *)
(***************************************************************************)
EXTENDS Naturals, Sequences, SequencesExt

CONSTANTS Query, Blank, NoId

ASSUME SelectionAssumption == Blank \notin Query

VARIABLES
    selected, focus,           \* selectedNodeId, focusNodeId
    history, index,            \* navHistory, and navIndex counted from one
    query, typed,              \* the text in the panel, its timer is set
    searches,                  \* queries sent and not answered, oldest first
    results,                   \* the query whose results are shown
    raced                      \* history: a search began while one was under way

trailVars  == <<selected, focus, history, index>>
searchVars == <<query, typed, searches, results, raced>>

SelectionInit ==
    /\ selected = NoId /\ focus = NoId
    /\ history = <<>> /\ index = 0
    /\ query = Blank /\ typed = FALSE
    /\ searches = <<>>
    /\ results = Blank
    /\ raced = FALSE

SelectNodeKeepingAhead(n) ==
    /\ selected' = n
    /\ IF n # NoId /\ n # selected
       THEN history' = Append(history, n) /\ index' = Len(history) + 1
       ELSE UNCHANGED <<history, index>>

SelectNode(n) ==
    /\ selected' = n
    /\ IF n # NoId /\ n # selected
       THEN /\ history' = Append(SubSeq(history, 1, index), n)
            /\ index' = index + 1
       ELSE UNCHANGED <<history, index>>

Select(n) ==
    /\ SelectNode(n)
    /\ UNCHANGED <<focus, searchVars>>

FocusNode(n) ==
    /\ SelectNode(n)
    /\ focus' = n
    /\ UNCHANGED searchVars

NavBack ==
    /\ index > 1
    /\ index' = index - 1
    /\ selected' = history[index - 1]
    /\ UNCHANGED <<focus, history, searchVars>>

NavForward ==
    /\ index < Len(history)
    /\ index' = index + 1
    /\ selected' = history[index + 1]
    /\ UNCHANGED <<focus, history, searchVars>>

(* Every change of the text sets the timer anew.                           *)
Type(q) ==
    /\ q # query
    /\ query' = q
    /\ typed' = TRUE
    /\ UNCHANGED <<trailVars, searches, results, raced>>

SearchKeepingResults ==
    /\ typed
    /\ typed' = FALSE
    /\ raced' = (raced \/ searches # <<>>)
    /\ searches' = IF query = Blank THEN searches ELSE Append(searches, query)
    /\ UNCHANGED <<trailVars, query, results>>

Search ==
    /\ typed
    /\ typed' = FALSE
    /\ raced' = (raced \/ searches # <<>>)
    /\ IF query = Blank
       THEN results' = Blank /\ UNCHANGED searches
       ELSE searches' = Append(searches, query) /\ UNCHANGED results
    /\ UNCHANGED <<trailVars, query>>

(* The answers come in any order; one that fails shows no results.         *)
Answered(ok) ==
    \E i \in DOMAIN searches :
        /\ results' = IF ok THEN searches[i] ELSE Blank
        /\ searches' = RemoveAt(searches, i)
        /\ UNCHANGED <<trailVars, query, typed, raced>>
---------------------------------------------------------------------------
(* What the user walked through stays: a new selection comes right after   *)
(* the node it was made on and drops only what Back had left ahead; and    *)
(* the history points at what is selected, so that Back and Forward lead   *)
(* away from what is on the screen.                                        *)
TrailKept ==
    [][ /\ \A i \in 1..index : i <= Len(history') /\ history'[i] = history[i]
        /\ history' # history => index' = index + 1 /\ Len(history') = index'
        /\ index' \in 0..Len(history')
        /\ selected' # NoId => index' > 0 /\ history'[index'] = selected'
      ]_trailVars

(* Once the panel is at rest it shows results of the text it shows, or     *)
(* none, unless one search began while another was under way: search()     *)
(* does not look at which answer it gets.                                  *)
ResultsOfQuery ==
    searches = <<>> /\ ~typed /\ ~raced => results \in {query, Blank}
=============================================================================
