---------------------------- MODULE FileSource ----------------------------
(***************************************************************************)
(* The line sources: file.CtxSource and file.ctxTailSource                 *)
(* (plugin/file/file.go) and SourceIn (plugin/stdstream/stdstream.go).     *)
(* Each is a goroutine that reads lines and sends an entry for each one on *)
(* an unbuffered channel.                                                  *)
(*                                                                         *)
(*  - "file" and "in" scan; a second goroutine waits for the context to be *)
(*    cancelled and sets a flag that the first one looks at after each     *)
(*    scan, but not while it scans or is blocked in a send.  Standard      *)
(*    input may have no further line for as long as it likes.              *)
(*  - "tail" selects over the cancelled context and the lines that a       *)
(*    tailing library delivers, for as long as the library likes.  It does *)
(*    not select while it is blocked in a send either.                     *)
(*                                                                         *)
(* The module gives the state and the steps; a session conjoins Send with  *)
(* the step of whoever receives.                                           *)
(***************************************************************************)
EXTENDS Integers

CONSTANTS Lines,    \* bound: the number of lines of the input
          TooLong,  \* the lines that are longer than the scanner's buffer
          Kinds     \* the kinds of source

ASSUME LinesAssumption == Lines \in Nat
ASSUME TooLongAssumption == TooLong \subseteq 1..Lines
ASSUME KindsAssumption == Kinds \subseteq {"file", "in", "tail"}

VARIABLES
  kind,         \* the kind of the source
  scanPc,       \* where the reading goroutine is
  scanned,      \* the number of lines scanned
  srcFlag,      \* hasClosed: the flag of the cancellation goroutine
  srcClosed,    \* the channel is closed
  fileOpen      \* the file, or the tail of it, is open

srcVars == <<kind, scanPc, scanned, srcFlag, srcClosed, fileOpen>>

\* The file has been opened; opening errors are reported to the caller.
\* Standard input is neither opened nor closed.
SrcInit == /\ kind \in Kinds
           /\ scanPc = "scan"
           /\ scanned = 0
           /\ srcFlag = FALSE
           /\ srcClosed = FALSE
           /\ fileOpen = (kind # "in")

Scanning == scanPc = "scan" /\ kind \in {"file", "in"}
Tailing == scanPc = "scan" /\ kind = "tail"

\* Scan finds a line: there is one left and it fits into the buffer.
HasLine == scanned < Lines /\ scanned + 1 \notin TooLong

\* A line has been read and its entry is about to be sent.
LineRead == /\ scanned' = scanned + 1
            /\ scanPc' = "send"
            /\ UNCHANGED <<kind, srcFlag, srcClosed, fileOpen>>

\* scanner.Scan returns true and the flag is not set.
ScanLine == Scanning /\ HasLine /\ ~srcFlag /\ LineRead

GoTo(there) == /\ scanPc' = there
               /\ UNCHANGED <<kind, scanned, srcFlag, srcClosed, fileOpen>>

\* scanner.Scan returns true and the flag is set: the line is dropped.
ScanCancelled == Scanning /\ HasLine /\ srcFlag /\ GoTo("close_channel")

\* scanner.Scan returns false: at the end of the file, or at a line that is
\* too long for it.  Nothing asks the scanner which of the two it was.
ScanEnd == Scanning /\ ~HasLine /\ GoTo("close_channel")

\* The select of the tail takes a line; its lines have no bound.
TailLine == Tailing /\ scanned < Lines /\ LineRead

\* The tailing library gives up: its channel of lines is closed.
TailEnd == Tailing /\ GoTo("close_channel")

\* What the select of the tail waits for besides a line.  A faulty variant
\* waits for lines only.
NoDone(cancelled) == FALSE
DoneReady(cancelled) == cancelled

\* The select of the tail takes the cancelled context, and stops the library.
TailStop(cancelled) == /\ Tailing
                       /\ DoneReady(cancelled)
                       /\ fileOpen' = FALSE
                       /\ scanPc' = "close_channel"
                       /\ UNCHANGED <<kind, scanned, srcFlag, srcClosed>>

\* The receiver takes the entry of line "scanned".
Send == scanPc = "send" /\ GoTo("scan")

\* The deferred close of the channel; the file source then closes its file.
CloseChannel == /\ scanPc = "close_channel"
                /\ srcClosed' = TRUE
                /\ scanPc' = IF kind = "file" THEN "close_file" ELSE "exited"
                /\ UNCHANGED <<kind, scanned, srcFlag, fileOpen>>

CloseFile == /\ scanPc = "close_file"
             /\ fileOpen' = FALSE
             /\ scanPc' = "exited"
             /\ UNCHANGED <<kind, scanned, srcFlag, srcClosed>>

\* The goroutine that waits for ctx.Done sets hasClosed.  The tail has none.
SetSrcFlag(cancelled) == /\ cancelled
                         /\ kind # "tail"
                         /\ ~srcFlag
                         /\ srcFlag' = TRUE
                         /\ UNCHANGED <<kind, scanPc, scanned, srcClosed, fileOpen>>

\* The steps that the reading goroutine takes on its own, and those of them
\* that need nothing from the input.
SrcStep(cancelled) == \/ ScanLine \/ ScanCancelled \/ ScanEnd
                      \/ TailLine \/ TailEnd \/ TailStop(cancelled)
                      \/ CloseChannel \/ CloseFile
SrcOwnStep(cancelled) == \/ kind = "file" /\ SrcStep(cancelled)
                         \/ TailStop(cancelled) \/ CloseChannel

\* Standard input has neither another line nor an end.
InputSilent == Scanning /\ kind = "in"

\* The goroutine has come to its end and holds nothing open.  When the tailing
\* library gives up by itself there is nothing left to stop.
SrcReleased == scanPc = "exited" /\ (kind = "file" => ~fileOpen)

SrcTypeOK == /\ kind \in Kinds
             /\ scanPc \in {"scan", "send", "close_channel", "close_file", "exited"}
             /\ scanned \in 0..Lines
             /\ srcFlag \in BOOLEAN
             /\ srcClosed \in BOOLEAN
             /\ fileOpen \in BOOLEAN
=============================================================================
