------------------------------ MODULE Handshake ------------------------------
(***************************************************************************)
(* WindowsViaCPP5th, 09-Handshake/Handshake.cpp: a dialog and a server     *)
(* thread hand a buffer to and fro with two auto-reset events.  The        *)
(* dialog's end is a request of its own, which counts when the dialog is   *)
(* gone, for the user may type the same text.                              *)
(***************************************************************************)

CONSTANTS g_szServerShutdown,
          Texts,                \* what the user types, perhaps also that
          Nothing               \* no text

VARIABLES g_hevtRequestSubmitted, g_hevtResultReturned,
          buffer,               \* [text, reversed]
          g_hMainDlg,           \* is not NULL
          dialog, answerer,     \* places of the two threads
          submitted, shown      \* the dialog's request and its result

handVars == <<g_hevtRequestSubmitted, g_hevtResultReturned, buffer, g_hMainDlg,
              dialog, answerer, submitted, shown>>

Plain(text) == [text |-> text, reversed |-> FALSE]

HandInit ==
  /\ g_hevtRequestSubmitted = FALSE /\ g_hevtResultReturned = FALSE
  /\ buffer = Plain(Nothing)
  /\ g_hMainDlg = FALSE
  /\ dialog = "start" /\ answerer = "wait"
  /\ submitted = Nothing /\ shown = Plain(Nothing)

-----------------------------------------------------------------------------
(* The dialog, and main around it *)

InitDialog ==
  /\ dialog = "start" /\ dialog' = "open" /\ g_hMainDlg' = TRUE
  /\ UNCHANGED <<g_hevtRequestSubmitted, g_hevtResultReturned, buffer, answerer, submitted, shown>>

\* SignalObjectAndWait: the event is set and the wait begins.
Submit(text) ==
  /\ dialog = "open" /\ dialog' = "wait"
  /\ buffer' = Plain(text) /\ submitted' = text
  /\ g_hevtRequestSubmitted' = TRUE
  /\ UNCHANGED <<g_hevtResultReturned, g_hMainDlg, answerer, shown>>

ShowResult ==
  /\ dialog = "wait" /\ dialog' = "open"
  /\ g_hevtResultReturned /\ g_hevtResultReturned' = FALSE
  /\ shown' = buffer
  /\ UNCHANGED <<g_hevtRequestSubmitted, buffer, g_hMainDlg, answerer, submitted>>

EndDialog ==
  /\ dialog = "open" /\ dialog' = "closing" /\ g_hMainDlg' = FALSE
  /\ UNCHANGED <<g_hevtRequestSubmitted, g_hevtResultReturned, buffer, answerer, submitted, shown>>

RequestShutdown ==
  /\ dialog = "closing" /\ dialog' = "join"
  /\ buffer' = Plain(g_szServerShutdown)
  /\ g_hevtRequestSubmitted' = TRUE
  /\ UNCHANGED <<g_hevtResultReturned, g_hMainDlg, answerer, submitted, shown>>

\* Both the event and the thread.
JoinServer ==
  /\ dialog = "join" /\ dialog' = "done"
  /\ g_hevtResultReturned /\ answerer = "done"
  /\ g_hevtResultReturned' = FALSE
  /\ UNCHANGED <<g_hevtRequestSubmitted, buffer, g_hMainDlg, answerer, submitted, shown>>

-----------------------------------------------------------------------------
(* ServerThread *)

AwaitRequest ==
  /\ answerer = "wait" /\ answerer' = "process"
  /\ g_hevtRequestSubmitted /\ g_hevtRequestSubmitted' = FALSE
  /\ UNCHANGED <<g_hevtResultReturned, buffer, g_hMainDlg, dialog, submitted, shown>>

fShutdown == ~g_hMainDlg /\ buffer = Plain(g_szServerShutdown)

\* Fault: the text alone ends the thread.
Process_AnyDialog ==
  /\ answerer = "process"
  /\ IF buffer = Plain(g_szServerShutdown)
     THEN answerer' = "last" /\ UNCHANGED buffer
     ELSE answerer' = "return" /\ buffer' = [text |-> buffer.text, reversed |-> ~buffer.reversed]
  /\ UNCHANGED <<g_hevtRequestSubmitted, g_hevtResultReturned, g_hMainDlg, dialog, submitted, shown>>

Process ==
  /\ answerer = "process"
  /\ IF fShutdown
     THEN answerer' = "last" /\ UNCHANGED buffer
     ELSE answerer' = "return" /\ buffer' = [text |-> buffer.text, reversed |-> ~buffer.reversed]
  /\ UNCHANGED <<g_hevtRequestSubmitted, g_hevtResultReturned, g_hMainDlg, dialog, submitted, shown>>

ReturnResult ==
  /\ \/ answerer = "return" /\ answerer' = "wait"
     \/ answerer = "last" /\ answerer' = "done"
  /\ g_hevtResultReturned' = TRUE
  /\ UNCHANGED <<g_hevtRequestSubmitted, buffer, g_hMainDlg, dialog, submitted, shown>>

Server == AwaitRequest \/ Process \/ ReturnResult

Dialog == InitDialog \/ ShowResult \/ EndDialog \/ RequestShutdown \/ JoinServer

HandNext == Dialog \/ Server \/ \E text \in Texts : Submit(text)
-----------------------------------------------------------------------------
(***************************************************************************)
(* What the dialog shows when it is open is the text it submitted,         *)
(* reversed, whatever the text is.                                         *)
(***************************************************************************)
ResultOfRequest ==
  dialog = "open" /\ submitted # Nothing => shown = [text |-> submitted, reversed |-> TRUE]
=============================================================================
