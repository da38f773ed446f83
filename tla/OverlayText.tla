----------------------------- MODULE OverlayText -----------------------------
(***************************************************************************)
(* Host text work for overlay windows (vivid/overlay_text.rs): a session's   *)
(* actor admits one measurement at a time and hands it to a worker thread,    *)
(* which answers, and for a retained batch installs layouts that scenes may    *)
(* hold on to after their release.  Locks are modelled where one is taken     *)
(* while another is held: overlays is the host's mutex, contexts[s] that of    *)
(* session s.  Every other critical section is one action that finds its      *)
(* mutex free.  A session has one context and one window.                     *)
(***************************************************************************)
EXTENDS Naturals, FiniteSets

CONSTANTS
  Sessions,
  MAX_OWNERS, MAX_RETAINED_LAYOUTS,
  MaxTexts,    \* bounds the texts of a batch
  MaxLayout    \* bounds next_layout

VARIABLES
  overlays,     \* who holds the host's mutex
  contexts,     \* contexts[s]: who holds the mutex of its contexts
  granted,      \* granted[s]: its context has the operation class
  actor,        \* actor[s]: idle, or where it is between two critical sections
  worker,       \* worker[s]: [at, texts, retain]
  window,       \* window[s]: none, open, or dismissed
  lane,         \* lane[s]: its input lane is open
  text_jobs,
  layouts,      \* installed: <<session, id>>
  scenes,       \* the layouts compiled scenes hold
  layout_charges,
  next_layout

vars == <<overlays, contexts, granted, actor, worker, window, lane, text_jobs, layouts, scenes,
          layout_charges, next_layout>>

Idle == [at |-> "idle", texts |-> 0, retain |-> FALSE]

Init ==
  /\ overlays = "free" /\ contexts = [s \in Sessions |-> "free"]
  /\ granted = [s \in Sessions |-> TRUE]
  /\ actor = [s \in Sessions |-> "idle"] /\ worker = [s \in Sessions |-> Idle]
  /\ window = [s \in Sessions |-> "none"] /\ lane = [s \in Sessions |-> TRUE]
  /\ text_jobs = {} /\ layouts = {} /\ scenes = {} /\ layout_charges = {}
  /\ next_layout = 0

locks == <<overlays, contexts>>
text == <<text_jobs, layouts, scenes, layout_charges, next_layout>>

Own(s, set) == {l \in set : l[1] = s}

(* A charge whose token is gone is dropped by the next request to look.       *)
Live == layouts \cup scenes

(* Mutant: only layouts that are still installed count.                       *)
RetainedInstalled == layout_charges \cap layouts
Retained == layout_charges \cap Live

Authorized(s) == window[s] = "open" /\ lane[s]

-----------------------------------------------------------------------------
(* The session's actor.                                                      *)

Fits(s, n) ==
  /\ Cardinality(Own(s, Retained)) + n <= MAX_RETAINED_LAYOUTS
  /\ Cardinality(Retained) + n <= MAX_RETAINED_LAYOUTS * MAX_OWNERS

(* measure and measure_batch: the context's authority, which only the actor    *)
(* itself can take away, then the host.  Only a batch looks at the charges,    *)
(* and only one that retains has to fit.                                     *)
Measure(s, n, retain) ==
  /\ actor[s] = "idle" /\ contexts[s] = "free" /\ granted[s]
  /\ overlays = "free" /\ Authorized(s)
  /\ s \notin text_jobs /\ Cardinality(text_jobs) < MAX_OWNERS
  /\ retain => Fits(s, n)
  /\ layout_charges' \in IF retain THEN {Retained} ELSE {layout_charges, Retained}
  /\ text_jobs' = text_jobs \cup {s}
  /\ \/ /\ worker' = [worker EXCEPT ![s] = [at |-> "shaping", texts |-> n, retain |-> retain]]
        /\ UNCHANGED actor
     \/ /\ actor' = [actor EXCEPT ![s] = "unspawned"]
        /\ UNCHANGED worker
  /\ UNCHANGED <<locks, granted, window, lane, layouts, scenes, next_layout>>

(* No thread for it: the job is taken back.                                   *)
SpawnFails(s) ==
  /\ actor[s] = "unspawned" /\ overlays = "free"
  /\ text_jobs' = text_jobs \ {s}
  /\ actor' = [actor EXCEPT ![s] = "idle"]
  /\ UNCHANGED <<locks, granted, worker, window, lane, layouts, scenes, layout_charges,
                 next_layout>>

(* RELEASE_OVERLAY_TEXT_LAYOUTS: all of the named layouts, or none.           *)
Release(s) ==
  /\ actor[s] = "idle" /\ contexts[s] = "free" /\ granted[s]
  /\ overlays = "free" /\ Authorized(s)
  /\ \E ids \in SUBSET Own(s, layouts) \ {{}} :
       /\ layouts' = layouts \ ids
       /\ layout_charges' = layout_charges \cap ((layouts \ ids) \cup scenes)
  /\ UNCHANGED <<locks, granted, actor, worker, window, lane, text_jobs, scenes, next_layout>>

(* overlay::dispatch takes the host, then asks for the context's authority.   *)
Dispatch(s) ==
  /\ actor[s] = "idle" /\ overlays = "free"
  /\ overlays' = "actor"
  /\ actor' = [actor EXCEPT ![s] = "dispatch"]
  /\ UNCHANGED <<contexts, granted, worker, window, lane, text>>

(* SET_OVERLAY_WINDOW makes a window; a dismissed one is not reopened.        *)
Dispatched(s) ==
  /\ actor[s] = "dispatch" /\ contexts[s] = "free"
  /\ window' = IF granted[s] /\ lane[s] /\ window[s] = "none"
               THEN [window EXCEPT ![s] = "open"] ELSE window
  /\ overlays' = "free"
  /\ actor' = [actor EXCEPT ![s] = "idle"]
  /\ UNCHANGED <<contexts, granted, worker, lane, text>>

(* The window and what it had go; charges wait for somebody to look.          *)
Forget(s, at) ==
  /\ window' = [window EXCEPT ![s] = at]
  /\ layouts' = layouts \ Own(s, layouts)
  /\ scenes' = scenes \ Own(s, scenes)

(* REVOKE_CONTEXT: the authority first, then the host's surfaces.             *)
Revoke(s) ==
  /\ actor[s] = "idle" /\ contexts[s] = "free" /\ granted[s]
  /\ granted' = [granted EXCEPT ![s] = FALSE]
  /\ actor' = [actor EXCEPT ![s] = "revoked"]
  /\ UNCHANGED <<locks, worker, window, lane, text>>

SurfaceRemoved(s) ==
  /\ actor[s] \in {"idle", "revoked"} /\ overlays = "free"
  /\ window[s] # "none" \/ actor[s] = "revoked"
  /\ Forget(s, "none")
  /\ actor' = [actor EXCEPT ![s] = "idle"]
  /\ UNCHANGED <<locks, granted, worker, lane, text_jobs, layout_charges, next_layout>>

(* service_input: what a dismissed window retained goes.                      *)
ServiceInput(s) ==
  /\ actor[s] = "idle" /\ overlays = "free" /\ lane[s]
  /\ window[s] = "dismissed" /\ Own(s, Live) # {}
  /\ Forget(s, "dismissed")
  /\ UNCHANGED <<locks, granted, actor, worker, lane, text_jobs, layout_charges, next_layout>>

-----------------------------------------------------------------------------
(* Others that take the host's mutex.                                        *)

Dismiss(s) ==
  /\ overlays = "free" /\ window[s] = "open"
  /\ window' = [window EXCEPT ![s] = "dismissed"]
  /\ UNCHANGED <<locks, granted, actor, worker, lane, text>>

(* A channel worker compiles a scene with layouts it found installed.         *)
Frame(s) ==
  /\ overlays = "free" /\ window[s] = "open"
  /\ \E ids \in SUBSET Own(s, layouts) : scenes' = (scenes \ Own(s, scenes)) \cup ids
  /\ UNCHANGED <<locks, granted, actor, worker, window, lane, text_jobs, layouts,
                 layout_charges, next_layout>>

LaneLost(s) ==
  /\ overlays = "free" /\ lane[s]
  /\ lane' = [lane EXCEPT ![s] = FALSE]
  /\ Forget(s, "none")
  /\ UNCHANGED <<locks, granted, actor, worker, text_jobs, layout_charges, next_layout>>

LaneOpen(s) ==
  /\ overlays = "free" /\ ~lane[s]
  /\ lane' = [lane EXCEPT ![s] = TRUE]
  /\ UNCHANGED <<locks, granted, actor, worker, window, text>>

-----------------------------------------------------------------------------
(* The worker.                                                               *)

(* measure checks the context, then the host, each by itself, and then says    *)
(* that its job is over.                                                     *)
Check(s) ==
  /\ worker[s].at = "shaping" /\ ~worker[s].retain
  /\ contexts[s] = "free"
  /\ worker' = [worker EXCEPT ![s].at = "checked"]
  /\ UNCHANGED <<locks, granted, actor, window, lane, text>>

Answer(s) ==
  /\ worker[s].at = "checked" /\ overlays = "free"
  /\ text_jobs' = text_jobs \ {s}
  /\ worker' = [worker EXCEPT ![s] = Idle]
  /\ UNCHANGED <<locks, granted, actor, window, lane, layouts, scenes, layout_charges,
                 next_layout>>

(* measure_batch keeps the context's mutex while it waits for the host's.     *)
HoldContexts(s) ==
  /\ worker[s].at = "shaping" /\ contexts[s] = "free"
  /\ contexts' = [contexts EXCEPT ![s] = "worker"]
  /\ worker' = [worker EXCEPT ![s].at = "holding"]
  /\ UNCHANGED <<overlays, granted, actor, window, lane, text>>

Finished(s) ==
  /\ text_jobs' = text_jobs \ {s}
  /\ contexts' = [contexts EXCEPT ![s] = "free"]
  /\ worker' = [worker EXCEPT ![s] = Idle]
  /\ UNCHANGED <<overlays, granted, actor, window, lane, scenes>>

(* The whole batch is installed once nothing about it can fail any more.      *)
Install(s) ==
  /\ worker[s].at = "holding" /\ overlays = "free"
  /\ worker[s].retain /\ granted[s] /\ Authorized(s)
  /\ Cardinality(Retained) + worker[s].texts <= MAX_RETAINED_LAYOUTS * MAX_OWNERS
  /\ next_layout + worker[s].texts <= MaxLayout
  /\ LET new == {<<s, next_layout + i>> : i \in 1 .. worker[s].texts}
     IN /\ layout_charges' = Retained \cup new
        /\ layouts' = layouts \cup new
  /\ next_layout' = next_layout + worker[s].texts
  /\ Finished(s)

(* Nothing to retain, refused, or too much for the limits or the reply.       *)
InstallFails(s) ==
  /\ worker[s].at = "holding" /\ overlays = "free"
  /\ layout_charges' \in {layout_charges, Retained}
  /\ UNCHANGED <<layouts, next_layout>>
  /\ Finished(s)

Next ==
  \E s \in Sessions :
    \/ \E n \in 1 .. MaxTexts : Measure(s, n, TRUE)
    \/ Measure(s, 1, FALSE)
    \/ SpawnFails(s) \/ Release(s)
    \/ Dispatch(s) \/ Dispatched(s) \/ Revoke(s) \/ SurfaceRemoved(s) \/ ServiceInput(s)
    \/ Dismiss(s) \/ Frame(s) \/ LaneLost(s) \/ LaneOpen(s)
    \/ Check(s) \/ Answer(s) \/ HoldContexts(s) \/ Install(s) \/ InstallFails(s)

Spec == Init /\ [][Next]_vars

-----------------------------------------------------------------------------
TypeOK ==
  /\ overlays \in {"free", "actor"} /\ contexts \in [Sessions -> {"free", "worker"}]
  /\ next_layout \in 0 .. MaxLayout
  /\ layout_charges \subseteq Sessions \X (1 .. MaxLayout)

(* A session is busy with text exactly while somebody will say it no longer    *)
(* is, whatever was revoked, dismissed or lost meanwhile.                     *)
JobsEnd ==
  text_jobs = {s \in Sessions : actor[s] = "unspawned" \/ worker[s].at # "idle"}

(* What is retained is charged, also after its release while a scene shows it,  *)
(* and within the limits of the session and of the host.                      *)
RetainedCharged ==
  /\ Live \subseteq layout_charges
  /\ \A s \in Sessions : Cardinality(Own(s, Live)) <= MAX_RETAINED_LAYOUTS
  /\ Cardinality(Live) <= MAX_RETAINED_LAYOUTS * MAX_OWNERS

(* A batch is never installed for a window that is gone.                      *)
LayoutsHaveWindow == \A l \in Live : window[l[1]] # "none" /\ lane[l[1]]

TextKept == TypeOK /\ JobsEnd /\ RetainedCharged /\ LayoutsHaveWindow

(* "The context lock precedes the host lock, matching authorization elsewhere":  *)
(* no actor that has the host's mutex waits for the contexts of a session        *)
(* whose worker has those and waits for the host's.                             *)
LocksOrdered == \A s \in Sessions : ~(actor[s] = "dispatch" /\ worker[s].at = "holding")
=============================================================================
