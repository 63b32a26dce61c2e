------------------------------ MODULE Windows ------------------------------
(***************************************************************************)
(* Layers, the active layer and the routes of input: LayerManager and      *)
(* ActiveLayer of layer.cpp, the mouse and the keys as the main task       *)
(* handles them, and the tasks that own windows: terminals, the            *)
(* applications in them, and the windowless terminal at the end of a pipe. *)
(*                                                                         *)
(* The main task has a level of its own, above the others, and handles an  *)
(* event to its end; what the other tasks do between a cli and the next    *)
(* sti is one action.  Where windows are and what is drawn is left out: a  *)
(* click may hit any layer but the pointer's.                              *)
(***************************************************************************)
EXTENDS Integers, Sequences, SequencesExt, FiniteSets, TLC

CONSTANTS Terminal, \* tasks of terminals with a window
          Runner,   \* those in which commands are run
          Child,    \* tasks of windowless terminals, made by a pipe
          NBox,     \* number of windows of the main task
          MaxLayer, MaxInbox  \* bounds of the layers made and of waiting messages

Task == Terminal \cup Child

\* The layers made at boot: the desktop, the console, the windows of the main
\* task and the pointer.
Desktop == 1
Box == 3..(NBox + 2)
mouse_layer_ == NBox + 3
Fixed == 1..mouse_layer_

NoTask == "no task"

ASSUME WindowsAssumption ==
  /\ NBox \in Nat /\ MaxLayer \in Nat /\ MaxLayer >= mouse_layer_
  /\ MaxInbox \in Nat /\ Runner \subseteq Terminal
  /\ Terminal \cap Child = {} /\ NoTask \notin Task

VARIABLES layers_, layer_stack_, latest_id_,  \* of LayerManager
          active_layer_,
          drag_layer_id_, previous_left, \* of Mouse
          layer_task_map,
          inbox,     \* the messages of each task
          pc,        \* where each task is
          layer_id_, \* the window of each terminal
          lit,       \* window_isactive of each terminal
          held,      \* the layer each task has a pointer to
          opened,    \* the windows each task's application has opened
          reader,    \* the task that each terminal has a pipe to
          ran,       \* the terminals that have run a command
          wild       \* the main task has followed a null pointer

screen == <<layers_, layer_stack_, latest_id_, active_layer_>>
mouse == <<drag_layer_id_, previous_left>>
vars == <<screen, mouse, layer_task_map, inbox, pc, layer_id_, lit, held, opened, reader, ran, wild>>

Layer == 1..MaxLayer

Key == [type |-> "kKeyPush", arg |-> 0]
WindowActive(activate) == [type |-> "kWindowActive", arg |-> activate]
WindowClose(layer) == [type |-> "kWindowClose", arg |-> layer]
Message == {Key} \cup {WindowActive(a) : a \in 0..1} \cup {WindowClose(l) : l \in Layer}

Init ==
  /\ layers_ = Fixed /\ layer_stack_ = [l \in Fixed |-> l] /\ latest_id_ = mouse_layer_
  /\ active_layer_ = 0 /\ drag_layer_id_ = 0 /\ previous_left = FALSE
  /\ layer_task_map = [l \in {} |-> NoTask]
  /\ inbox = [t \in Task |-> <<>>]
  /\ pc = [t \in Task |-> "none"]
  /\ layer_id_ = [t \in Task |-> 0] /\ lit = [t \in Task |-> FALSE]
  /\ held = [t \in Task |-> 0] /\ opened = [t \in Task |-> {}]
  /\ reader = [t \in Terminal |-> NoTask]
  /\ ran = {} /\ wild = FALSE

-----------------------------------------------------------------------------
(* LayerManager and ActiveLayer, on the stack s *)

\* A layer is on the stack at most once.
Hide(s, id) ==
  IF \E i \in DOMAIN s : s[i] = id THEN RemoveAt(s, CHOOSE i \in DOMAIN s : s[i] = id) ELSE s

GetHeight(s, id) == CHOOSE h \in 0..(Len(s) - 1) : s[h + 1] = id

\* A layer that was not on the stack is inserted at its height; one that was
\* is taken out first.
UpDown(s, id, new_height) ==
  LET rest == Hide(s, id)
  IN InsertAt(rest, (IF new_height > Len(rest) THEN Len(rest) ELSE new_height) + 1, id)

\* Mutant: the window is raised as high as the pointer.
RaiseOver(s, id) ==
  LET down == UpDown(s, id, 0) IN UpDown(down, id, GetHeight(down, mouse_layer_))

\* To the bottom, and from there to below the pointer.
Raise(s, id) ==
  LET down == UpDown(s, id, 0) IN UpDown(down, id, GetHeight(down, mouse_layer_) - 1)

\* SendMessage to a task that has ended does nothing.
Post(box, t, m) == IF t # NoTask /\ pc[t] # "done" THEN [box EXCEPT ![t] = Append(@, m)] ELSE box

TaskOf(map, layer) == IF layer \in DOMAIN map THEN map[layer] ELSE NoTask

SendWindowActiveMessage(box, map, layer, activate) ==
  IF layer = 0 THEN box ELSE Post(box, TaskOf(map, layer), WindowActive(activate))

\* What Activate(layer) makes of the stack and of the mailboxes.
Activate(s, layer, map, box) ==
  IF layer = active_layer_ THEN [stack |-> s, inbox |-> box]
  ELSE LET told == SendWindowActiveMessage(box, map, active_layer_, 0)
       IN [stack |-> IF layer > 0 THEN Raise(s, layer) ELSE s,
           inbox |-> SendWindowActiveMessage(told, map, layer, 1)]

With(map, layer, t) ==
  [l \in DOMAIN map \cup {layer} |-> IF l = layer /\ l \notin DOMAIN map THEN t ELSE map[l]]
\* With, of a layer that may have a task already.
Routed(map, layer, t) == [l \in DOMAIN map \cup {layer} |-> IF l = layer THEN t ELSE map[l]]
Without(map, layer) == [l \in DOMAIN map \ {layer} |-> map[l]]

-----------------------------------------------------------------------------
(* The main task *)

Quiet == \A t \in Task : Len(inbox[t]) < MaxInbox

\* The left button goes down on a layer: on the part of its title bar that
\* drags it, on its close button, or elsewhere.  The main task's windows have
\* no close button, and the desktop and the console cannot be activated.
Press(layer, region) ==
  /\ Quiet /\ ~previous_left /\ previous_left' = TRUE
  /\ layer \in Fixed => region # "kCloseButton"
  /\ LET target == IF layer \in Fixed \ Box THEN 0 ELSE layer
         after == Activate(layer_stack_, target, layer_task_map, inbox)
     IN /\ active_layer_' = target /\ layer_stack_' = after.stack
        /\ drag_layer_id_' = IF target > 0 /\ region = "kTitleBar" THEN layer ELSE drag_layer_id_
        /\ inbox' = IF target > 0 /\ region = "kCloseButton" /\ drag_layer_id_ = 0
                    THEN Post(after.inbox, TaskOf(layer_task_map, layer), WindowClose(layer))
                    ELSE after.inbox
  /\ UNCHANGED <<layers_, latest_id_, layer_task_map, pc, layer_id_, lit, held, opened, reader,
                 ran, wild>>

\* The mouse moves with the button down: MoveRelative.
Drag ==
  /\ previous_left /\ drag_layer_id_ > 0
  /\ wild' = (drag_layer_id_ \notin layers_)
  /\ UNCHANGED <<screen, mouse, layer_task_map, inbox, pc, layer_id_, lit, held, opened, reader, ran>>

Release ==
  /\ previous_left /\ previous_left' = FALSE /\ drag_layer_id_' = 0
  /\ UNCHANGED <<screen, layer_task_map, inbox, pc, layer_id_, lit, held, opened, reader, ran, wild>>

\* A key goes to the task of the active layer.
PushKey ==
  /\ Quiet /\ active_layer_ \notin Box
  /\ inbox' = Post(inbox, TaskOf(layer_task_map, active_layer_), Key)
  /\ UNCHANGED <<screen, mouse, layer_task_map, pc, layer_id_, lit, held, opened, reader, ran, wild>>

\* F2, unless the main task's text boxes take the key; also done at boot.
NewTerminal(t) ==
  /\ active_layer_ \notin Box /\ pc[t] = "none"
  /\ pc' = [pc EXCEPT ![t] = "new"]
  /\ UNCHANGED <<screen, mouse, layer_task_map, inbox, layer_id_, lit, held, opened, reader, ran, wild>>

MainStep ==
  \/ \E layer \in Range(layer_stack_) \ {mouse_layer_} :
       \E region \in {"kTitleBar", "kCloseButton", "kOther"} : Press(layer, region)
  \/ Drag \/ Release \/ PushKey
  \/ \E t \in Terminal : NewTerminal(t)

-----------------------------------------------------------------------------
(* The tasks *)

Goto(t, place) == pc' = [pc EXCEPT ![t] = place]

\* A new layer, its window activated, and t its task: cli to sti.
Open(t) ==
  LET id == latest_id_ + 1
      map == With(layer_task_map, id, t)
      after == Activate(layer_stack_, id, map, inbox)
  IN /\ id <= MaxLayer
     /\ latest_id_' = id /\ layers_' = layers_ \cup {id} /\ active_layer_' = id
     /\ layer_task_map' = map
     /\ layer_stack_' = after.stack /\ inbox' = after.inbox

\* The same, but the window is activated before it has a task, as OpenWindow
\* does it: nobody is told that the window is active.
OpenUntold(t) ==
  LET id == latest_id_ + 1
      after == Activate(layer_stack_, id, layer_task_map, inbox)
  IN /\ id <= MaxLayer
     /\ latest_id_' = id /\ layers_' = layers_ \cup {id} /\ active_layer_' = id
     /\ layer_task_map' = With(layer_task_map, id, t)
     /\ layer_stack_' = after.stack /\ inbox' = after.inbox

\* Mutant: a terminal activates its window first.
StartUntold(t) ==
  /\ pc[t] = "new" /\ t \in Terminal
  /\ OpenUntold(t) /\ layer_id_' = [layer_id_ EXCEPT ![t] = latest_id_ + 1]
  /\ Goto(t, "loop")
  /\ UNCHANGED <<mouse, lit, held, opened, reader, ran, wild>>

\* TaskTerminal before its loop.  A child runs its one command, whatever it is.
Start(t) ==
  /\ pc[t] = "new"
  /\ \/ /\ t \in Terminal
        /\ Open(t) /\ layer_id_' = [layer_id_ EXCEPT ![t] = latest_id_ + 1]
        /\ Goto(t, "loop")
     \/ /\ t \in Child
        /\ Goto(t, "app")
        /\ UNCHANGED <<screen, layer_task_map, inbox, layer_id_>>
  /\ UNCHANGED <<mouse, lit, held, opened, reader, ran, wild>>

Receive(t, m) ==
  /\ inbox[t] # <<>> /\ m = Head(inbox[t])
  /\ inbox' = [inbox EXCEPT ![t] = Tail(@)]

\* A key edits the line, or is the Enter that runs it: a command, or one with
\* a pipe to another.
TakeKey(t) ==
  /\ pc[t] = "loop" /\ Receive(t, Key)
  /\ \/ UNCHANGED <<pc, reader, ran>>
     \/ /\ t \in Runner /\ ran' = ran \cup {t}
        /\ \/ Goto(t, "app") /\ UNCHANGED reader
           \/ \E c \in Child :
                /\ pc[c] = "none"
                /\ pc' = [pc EXCEPT ![t] = "pipe", ![c] = "new"]
                /\ reader' = [reader EXCEPT ![t] = c]
  /\ UNCHANGED <<screen, mouse, layer_task_map, layer_id_, lit, held, opened, wild>>

TakeActive(t) ==
  /\ pc[t] = "loop"
  /\ \E activate \in 0..1 :
       Receive(t, WindowActive(activate)) /\ lit' = [lit EXCEPT ![t] = (activate = 1)]
  /\ UNCHANGED <<screen, mouse, layer_task_map, pc, layer_id_, held, opened, reader, ran, wild>>

\* Mutant: it is the active window that is closed.
TakeCloseOfActive(t) ==
  /\ pc[t] = "loop"
  /\ \E layer \in Layer : Receive(t, WindowClose(layer))
  /\ IF active_layer_ \in layers_
     THEN Goto(t, "close") /\ held' = [held EXCEPT ![t] = active_layer_]
     ELSE Goto(t, "finish") /\ UNCHANGED held
  /\ UNCHANGED <<screen, mouse, layer_task_map, layer_id_, lit, opened, reader, ran, wild>>

\* CloseLayer as far as its cli, on the way to Finish.
TakeClose(t) ==
  /\ pc[t] = "loop"
  /\ \E layer \in Layer :
       /\ Receive(t, WindowClose(layer))
       /\ IF layer \in layers_
          THEN Goto(t, "close") /\ held' = [held EXCEPT ![t] = layer]
          ELSE Goto(t, "finish") /\ UNCHANGED held
  /\ UNCHANGED <<screen, mouse, layer_task_map, layer_id_, lit, opened, reader, ran, wild>>

\* CloseLayer, cli to sti: no layer is active afterwards.
CloseLayer(t) ==
  /\ pc[t] \in {"close", "app close"}
  /\ active_layer_' = 0
  /\ inbox' = Activate(layer_stack_, 0, layer_task_map, inbox).inbox
  /\ layers_' = layers_ \ {held[t]} /\ layer_stack_' = Hide(layer_stack_, held[t])
  /\ layer_task_map' = Without(layer_task_map, held[t])
  /\ held' = [held EXCEPT ![t] = 0]
  /\ Goto(t, IF pc[t] = "close" THEN "finish" ELSE "app")
  /\ UNCHANGED <<mouse, latest_id_, layer_id_, lit, opened, reader, ran, wild>>

Finish(t) ==
  /\ pc[t] = "finish"
  /\ Goto(t, "done") /\ inbox' = [inbox EXCEPT ![t] = <<>>]
  /\ UNCHANGED <<screen, mouse, layer_task_map, layer_id_, lit, held, opened, reader, ran, wild>>

\* The pipe's reader gets the input of the window while the line runs ...
Pipe(t) ==
  /\ pc[t] = "pipe"
  /\ layer_task_map' = Routed(layer_task_map, layer_id_[t], reader[t])
  /\ Goto(t, "app")
  /\ UNCHANGED <<screen, mouse, inbox, layer_id_, lit, held, opened, reader, ran, wild>>

\* ... until WaitFinish returns.
WaitFinish(t) ==
  /\ pc[t] = "wait" /\ pc[reader[t]] = "done"
  /\ layer_task_map' = Routed(layer_task_map, layer_id_[t], t)
  /\ reader' = [reader EXCEPT ![t] = NoTask]
  /\ Goto(t, "loop")
  /\ UNCHANGED <<screen, mouse, inbox, layer_id_, lit, held, opened, ran, wild>>

-----------------------------------------------------------------------------
(* Applications *)

OpenWindow(t) ==
  /\ pc[t] = "app"
  /\ OpenUntold(t) /\ opened' = [opened EXCEPT ![t] = @ \cup {latest_id_ + 1}]
  /\ UNCHANGED <<mouse, pc, layer_id_, lit, held, reader, ran, wild>>

\* DoWinFunc finds the layer, and draws into it after the sti.
DoWinFunc(t) ==
  /\ pc[t] = "app"
  /\ \E layer \in opened[t] \cap layers_ : held' = [held EXCEPT ![t] = layer]
  /\ Goto(t, "draw")
  /\ UNCHANGED <<screen, mouse, layer_task_map, inbox, layer_id_, lit, opened, reader, ran, wild>>

Drawn(t) ==
  /\ pc[t] = "draw"
  /\ held' = [held EXCEPT ![t] = 0] /\ Goto(t, "app")
  /\ UNCHANGED <<screen, mouse, layer_task_map, inbox, layer_id_, lit, opened, reader, ran, wild>>

\* CloseWindow: CloseLayer as far as its cli.
CloseWindow(t) ==
  /\ pc[t] = "app"
  /\ \E layer \in opened[t] \cap layers_ :
       /\ held' = [held EXCEPT ![t] = layer]
       /\ opened' = [opened EXCEPT ![t] = @ \ {layer}]
  /\ Goto(t, "app close")
  /\ UNCHANGED <<screen, mouse, layer_task_map, inbox, layer_id_, lit, reader, ran, wild>>

\* ReadEvent, or a Read of standard input, takes whatever message there is.
ReadEvent(t) ==
  /\ pc[t] = "app" /\ \E m \in Message : Receive(t, m)
  /\ UNCHANGED <<screen, mouse, layer_task_map, pc, layer_id_, lit, held, opened, reader, ran, wild>>

\* The command ends; windows it has not closed stay.
EndApp(t) ==
  /\ pc[t] = "app"
  /\ Goto(t, IF t \in Child THEN "finish" ELSE IF reader[t] # NoTask THEN "wait" ELSE "loop")
  /\ opened' = [opened EXCEPT ![t] = {}]
  /\ UNCHANGED <<screen, mouse, layer_task_map, inbox, layer_id_, lit, held, reader, ran, wild>>

\* What a task does of itself, and what its application may do.
TaskStep(t) ==
  \/ Start(t) \/ TakeKey(t) \/ TakeActive(t) \/ TakeClose(t) \/ CloseLayer(t) \/ Finish(t)
  \/ Drawn(t) \/ (t \in Terminal /\ (Pipe(t) \/ WaitFinish(t)))
AppStep(t) == OpenWindow(t) \/ DoWinFunc(t) \/ CloseWindow(t) \/ ReadEvent(t) \/ EndApp(t)

Next == ~wild /\ (MainStep \/ \E t \in Task : TaskStep(t) \/ AppStep(t))

\* Every task that can go on is given the processor (TaskManager, Kernel); what
\* the user and the applications do is up to them.
Spec == Init /\ [][Next]_vars /\ \A t \in Task : WF_vars(~wild /\ TaskStep(t))

-----------------------------------------------------------------------------
(* Properties *)

\* The stack holds every layer once, the desktop at the bottom and the pointer
\* on top; the active layer exists and is in front of all others, however
\* windows are opened, clicked and closed by several tasks (layer.cpp:133-164,
\* 231-252, 333-338).  Every window but the main task's own has a task.
StackSound ==
  /\ IsInjective(layer_stack_) /\ Range(layer_stack_) = layers_
  /\ Head(layer_stack_) = Desktop /\ Last(layer_stack_) = mouse_layer_
  /\ active_layer_ # 0 =>
       active_layer_ \in Box \cup (layers_ \ Fixed)
         /\ layer_stack_[Len(layer_stack_) - 1] = active_layer_
  /\ DOMAIN layer_task_map = layers_ \ Fixed

\* A pointer to a layer that a task has from before a cli or after an sti is
\* used while the layer is there: only the task that opened a window closes it
\* (syscall.cpp:96-103, layer.cpp:324-338).
HeldExist == \A t \in Task : held[t] # 0 => held[t] \in layers_

\* A terminal at its prompt that has handled its messages knows whether its
\* window is the active one (terminal.cpp:851-859, 918): the cursor blinks in
\* the window that gets the keys.  Commands take the messages of the terminal
\* they run in, so this holds of those that have run none.
FocusKnown ==
  \A t \in Terminal \ ran :
    pc[t] = "loop" /\ inbox[t] = <<>> => (lit[t] <=> active_layer_ = layer_id_[t])

\* A press on the close button of a terminal at its prompt closes the window,
\* unless a command typed before it is still to run (mouse.cpp:102-113,
\* terminal.cpp:921-925).
ClosePending(t) == t \notin ran /\ \E i \in DOMAIN inbox[t] : inbox[t][i] = WindowClose(layer_id_[t])
CloseCloses ==
  \A t \in Terminal : ClosePending(t) ~> (layer_id_[t] \notin layers_ \/ t \in ran \/ wild)
=============================================================================
