------------------------------ MODULE AllParts ------------------------------
(***************************************************************************)
(* Nine parts that share no state, in one run: those of Parts, and two     *)
(* more components, the automation events and the terminal.  A behaviour is *)
(* one of one part: part says which, the others never start.                *)
(***************************************************************************)
EXTENDS Parts

CONSTANTS
  Sizes, Limits, TabEvery, Counts, MaxTermSteps  \* of Term

VARIABLES
  part,  \* which part this behaviour is about
  term, ran,  \* of Term
  v1, v2, v3, v4, v5, v6, v7, v8, v9  \* of EventHub, in the order it declares them

(* MIN_SCREEN_LINES and MIN_COLUMNS bound every size; a parameter of 0 means 1. *)
TermAssumption ==
  /\ Sizes \subseteq [lines : Nat \ {0}, columns : Nat \ {0, 1}]
  /\ Limits \subseteq Nat /\ Counts \subseteq Nat \ {0}

ASSUME AllPartsAssumption == TermAssumption

Hub == INSTANCE EventHub WITH
  Clients <- {"c"}, MaxSubscriptions <- 2, MaxSubscriberEvents <- 2, QueueFrames <- 3,
  ReplayCount <- 2, Capacity <- 1, Chunk <- 1, MaxEvents <- 3, MaxBytes <- 2, MaxSubs <- 2,
  published <- v1, replay <- v2, subscribers <- v3, next_subscription_id <- v4,
  frames <- v5, alive <- v6, told <- v7, transcript <- v8, spans <- v9

Screen == INSTANCE Term

-----------------------------------------------------------------------------
(* The variables declared here, and their value in a part that does not use *)
(* them.                                                                     *)
screenVars == <<term, ran>>
hubVars == <<v1, v2, v3, v4, v5, v6, v7, v8, v9>>
restVars == <<screenVars, hubVars>>

ScreenOff == term = 0 /\ ran = 0
HubOff ==
  v1 = 0 /\ v2 = 0 /\ v3 = 0 /\ v4 = 0 /\ v5 = 0 /\ v6 = 0 /\ v7 = 0 /\ v8 = 0 /\ v9 = 0
RestOff == ScreenOff /\ HubOff

(* The lane's variables keep their initial values in every other part.        *)
PartsInit ==
  /\ Init
  /\ \/ /\ part = "gather" /\ Ahead!Init
        /\ PtyOff /\ DiskOff /\ TextOff /\ NotesOff /\ DropOff /\ RestOff
     \/ /\ part = "pty" /\ Pty!Init
        /\ AheadOff /\ DiskOff /\ TextOff /\ NotesOff /\ DropOff /\ RestOff
     \/ /\ part = "sessions" /\ Disk!Init
        /\ AheadOff /\ PtyOff /\ TextOff /\ NotesOff /\ DropOff /\ RestOff
     \/ /\ part = "text" /\ Text!Init
        /\ AheadOff /\ PtyOff /\ DiskOff /\ NotesOff /\ DropOff /\ RestOff
     \/ /\ part = "notify" /\ Notes!Init
        /\ AheadOff /\ PtyOff /\ DiskOff /\ TextOff /\ DropOff /\ RestOff
     \/ /\ part = "drop" /\ Drops!Init
        /\ AheadOff /\ PtyOff /\ DiskOff /\ TextOff /\ NotesOff /\ RestOff
     \/ /\ AheadOff /\ PtyOff /\ DiskOff /\ TextOff /\ NotesOff /\ DropOff
        /\ \/ part = "lane" /\ RestOff
           \/ part = "hub" /\ Hub!Init /\ ScreenOff
           \/ part = "term" /\ Screen!Init /\ HubOff

PartsNext ==
  /\ UNCHANGED part
  /\ \/ part = "lane" /\ Next /\ UNCHANGED <<ownVars, restVars>>
     \/ /\ part = "gather" /\ Ahead!Next
        /\ UNCHANGED <<vars, ptyVars, diskVars, textVars, notesVars, dropVars, restVars>>
     \/ /\ part = "pty" /\ Pty!Next
        /\ UNCHANGED <<vars, aheadVars, diskVars, textVars, notesVars, dropVars, restVars>>
     \/ /\ part = "sessions" /\ Disk!Next
        /\ UNCHANGED <<vars, aheadVars, ptyVars, textVars, notesVars, dropVars, restVars>>
     \/ /\ part = "text" /\ Text!Next
        /\ UNCHANGED <<vars, aheadVars, ptyVars, diskVars, notesVars, dropVars, restVars>>
     \/ /\ part = "notify" /\ Notes!Next
        /\ UNCHANGED <<vars, aheadVars, ptyVars, diskVars, textVars, dropVars, restVars>>
     \/ /\ part = "drop" /\ Drops!Next
        /\ UNCHANGED <<vars, aheadVars, ptyVars, diskVars, textVars, notesVars, restVars>>
     \/ part = "hub" /\ Hub!Next /\ UNCHANGED <<vars, ownVars, screenVars>>
     \/ part = "term" /\ Screen!Next /\ UNCHANGED <<vars, ownVars, hubVars>>

partsVars == <<part, vars, ownVars, restVars>>

PartsSpec == PartsInit /\ [][PartsNext]_partsVars

-----------------------------------------------------------------------------
(* What each part promises, as its own module states it.                     *)

(* A subscriber of automation events is told of every event it asked for, or *)
(* of its loss, once and in order, but for a replay gap it could not be told  *)
(* of (automation.rs, Subscriber::send).                                      *)
NoSilentGap == part = "hub" => Hub!NoSilentGap

(* Reading ahead of the parser loses, repeats and strands no output of the   *)
(* child (tty/gather.rs).                                                    *)
ReadAhead == part = "gather" => Ahead!ReadAhead

(* Input reaches the child in order and is reported written when it was,     *)
(* nothing waits without a wake-up, and the worker's end is heard last       *)
(* (event_loop.rs).                                                          *)
PtyWorker == part = "pty" => Pty!PtyWorker

(* Dropped files are transferred by one connection at a time, stopped when   *)
(* retired, released when over and typed once (vivid/file_drop.rs).          *)
DropsKept == part = "drop" => Drops!DropsKept

(* A session's files lead to its daemon while starts, ends and reapings do   *)
(* not overlap, no start able to validate the record there is locked out,    *)
(* and a client signals the recorded daemon only (session.rs).               *)
SessionsKept == part = "sessions" => Disk!SessionsKept

(* Text jobs end, and what a batch retained is charged and has a window       *)
(* (vivid/overlay_text.rs).                                                  *)
TextKept == part = "text" => Text!TextKept

(* Cursors, tabs and the scroll region stay inside the screen, and every     *)
(* change reaches the next frame (term/mod.rs, grid/).                       *)
ScreenKept == part = "term" => Screen!ScreenKept

(* The table of desktop notifications stays within its limit and true        *)
(* whatever the queues lose (osc_notification.rs).                           *)
NotificationsKept == part = "notify" => Notes!NotificationsKept
=============================================================================
