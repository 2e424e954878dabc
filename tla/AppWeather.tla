----------------------------- MODULE AppWeather ------------------------------
(***************************************************************************)
(* apps/weather/weather.py: a thread fetches the weather of a city.  The   *)
(* screen stays usable, so a second fetch may start before the first has   *)
(* answered, and their answers come in any order: `mixed` records it.      *)
(***************************************************************************)
EXTENDS AppLists
CONSTANT Cities  \* what a user types
VARIABLE s

NoData == "none"   \* self.data before any answer

\* A thread, and what it does next.
Fetches == [city : Cities \cup {NoText}, pc : {"get", "view", "input", "last"}]

Fresh == [city |-> NoText, data |-> NoData, mode |-> "input", input |-> NoText,
          status |-> NoText, loading |-> FALSE, jobs |-> NoJobs, mixed |-> FALSE]

fetch(st) == [st EXCEPT !.loading = TRUE, !.status = "Fetching",
                        !.jobs = Start(st, [city |-> st.city, pc |-> "get"]),
                        !.mixed = @ \/ Running(st) # {}]

KeyEnter ==
  /\ s.mode = "input" /\ s.input # NoText /\ CanStart(s)
  /\ s' = fetch([s EXCEPT !.city = s.input])

KeyType == s.mode = "input" /\ \E t \in Cities \cup {NoText} : s' = [s EXCEPT !.input = t]

KeyRefresh == s.mode = "view" /\ CanStart(s) /\ s' = fetch(s)

HandleInput == KeyEnter \/ KeyType \/ KeyRefresh

HandleEsc == s' = [s EXCEPT !.mode = "input", !.input = NoText]

\* run(): the answer or the timeout, then mode and status, then the flag
Work ==
  \E j \in Running(s) :
    \/ /\ s.jobs[j].pc = "get"
       /\ \/ s' = [s EXCEPT !.data = s.jobs[j].city, !.jobs[j].pc = "view"]
          \/ s' = [s EXCEPT !.status = "Error", !.jobs[j].pc = "input"]
    \/ /\ s.jobs[j].pc \in {"view", "input"}
       /\ s' = [s EXCEPT !.mode = s.jobs[j].pc, !.jobs[j].pc = "last",
                  !.status = IF s.jobs[j].pc = "view" THEN "Done" ELSE @]
    \/ /\ s.jobs[j].pc = "last"
       /\ s' = [s EXCEPT !.loading = FALSE, !.jobs[j] = Idle]

\* The view has data to show; unless fetches overlapped, the city's own.
Own ==
  /\ s.mode = "view" => s.data # NoData
  /\ s.mode = "view" /\ ~s.mixed => s.data = s.city
  /\ ~s.mixed => (s.loading <=> Running(s) # {})
=============================================================================
