------------------------------ MODULE Protocol ------------------------------
(***************************************************************************)
(* The versioned protocol of the backend, backend/ttop_backend/protocol.py *)
(* as operators: what a request line is worth, and what it is answered.    *)
(*                                                                         *)
(* A line is a record of what the checks look at.  Its text ends after its *)
(* first core bytes; what is left up to size is white space, which strip() *)
(* takes away.                                                             *)
(***************************************************************************)
EXTENDS Integers, FiniteSets

CONSTANTS
  MaxRequestBytes,   \* 4096
  DefaultLimit,      \* DEFAULT_PROCESS_LIMIT, 5
  MaxLimit           \* MAX_PROCESS_LIMIT, 20

ASSUME ProtocolAssumption ==
  /\ MaxRequestBytes \in Nat
  /\ MaxLimit \in Nat /\ DefaultLimit \in 1 .. MaxLimit

SupportedCommands == {"ping", "snapshot", "processes", "gpu"}
ProcessSortValues == {"cpu", "memory"}

\* How far a text comes: not UTF-8, nothing but white space, not JSON, nested
\* deeper than json.loads can follow, not an object with a command that is a
\* string, or such an object.
Texts == {"undecodable", "blank", "notJson", "tooDeep", "noCommand", "object"}

Lines ==
  [size : Nat, core : Nat, text : Texts, command : STRING,
   keys : SUBSET {"sort", "limit", "other"},   \* those beside command
   sort : STRING, limit : Int, limitIsInteger : BOOLEAN]

----------------------------------------------------------------------------
(* parse_request.                                                          *)

SortIsValid(line) == "sort" \notin line.keys \/ line.sort \in ProcessSortValues
LimitIsValid(line) ==
  \/ "limit" \notin line.keys
  \/ line.limitIsInteger /\ line.limit \in 1 .. MaxLimit

Takes(command) == IF command = "processes" THEN {"sort", "limit"} ELSE {}

\* The checks in the order of the code.
Fails(line, i) ==
  \/ i = 1 /\ line.size > MaxRequestBytes
  \/ i = 2 /\ line.text = "undecodable"
  \/ i = 3 /\ line.text = "blank"
  \/ i = 4 /\ line.text = "notJson"
  \/ i = 5 /\ line.text = "tooDeep"
  \/ i = 6 /\ line.text = "noCommand"
  \/ i = 7 /\ line.command \notin SupportedCommands
  \/ i = 8 /\ ~(line.keys \subseteq Takes(line.command))
  \/ i = 9 /\ ~SortIsValid(line)
  \/ i = 10 /\ ~LimitIsValid(line)

\* The code of the ProtocolError that each raises; what json.loads raises of a
\* text that is too deep is none, and tells the client nothing.
Code == <<"request_too_large", "invalid_encoding", "empty_request", "malformed_json",
          "internal_error", "invalid_request", "unsupported_command", "invalid_request", "invalid_sort",
          "invalid_limit">>

Failing(line) == {i \in 1 .. 10 : Fails(line, i)}

IsAccepted(line) == Failing(line) = {}

\* The first check that fails decides.
Rejection(line) ==
  LET first == CHOOSE i \in Failing(line) : \A j \in Failing(line) : i <= j
  IN Code[first]

\* Request(command, sort, limit), with the defaults of what was left out.
Request(line) ==
  [command |-> line.command,
   sort |-> IF "sort" \in line.keys THEN line.sort ELSE "cpu",
   limit |-> IF "limit" \in line.keys THEN line.limit ELSE DefaultLimit]

----------------------------------------------------------------------------
(* The answers.                                                            *)

\* status, and the error code or the command that the data are of; the answer
\* to snapshot has no status.
ErrorResponse(code) == [status |-> "error", about |-> code]
DataResponse(command) ==
  [status |-> IF command = "snapshot" THEN "none" ELSE "ok", about |-> command]

NoResponse == [status |-> "none", about |-> "nothing"]

\* What answers there are.
Abouts ==
  SupportedCommands \cup {Code[i] : i \in 1 .. 10}
    \cup {"internal_error", "permission_denied", "nothing"}
Responses == [status : {"error", "ok", "none"}, about : Abouts]

\* handle_request: an exception of the collector tells the client nothing.
HandleRequest(line, raises) ==
  IF ~IsAccepted(line) THEN ErrorResponse(Rejection(line))
  ELSE IF raises THEN ErrorResponse("internal_error")
  ELSE DataResponse(line.command)

----------------------------------------------------------------------------
(* What the first n bytes of a line are worth.  A document is an object    *)
(* only when it is whole; of text that is none, the beginning may be any.  *)

PieceTexts(line, n) ==
  {t \in Texts :
     /\ n = 0 \/ line.text = "blank" => t = "blank"
     /\ n > 0 /\ n >= line.core => t = line.text
     /\ n < line.core /\ line.text = "object" => t \notin {"object", "noCommand", "tooDeep"}
     /\ n < line.core /\ line.text = "noCommand" => t # "object"}

Pieces(line, n) ==
  {[line EXCEPT !.size = n, !.text = t] : t \in PieceTexts(line, n)}
=============================================================================
