------------------------------ MODULE Watchdog ------------------------------
(***************************************************************************)
(* JSONAutoRepair (internal/hub/watchdog.go): the repair of a worker's JSON *)
(* text, which grows character by character and is cut anywhere.           *)
(***************************************************************************)
EXTENDS Naturals, Sequences, SequencesExt

CONSTANTS
  Chars,          \* of the text: braces, brackets, "quote", "backslash", others
  MaxText, MaxStackDepth

ASSUME WatchdogAssumption == MaxText \in Nat /\ MaxStackDepth \in Nat \ {0}

VARIABLE text

WatchdogInit == text = <<>>

Closer(c) == IF c = "{" THEN "}" ELSE "]"

ScanStart == [stack |-> <<>>, inString |-> FALSE, escaped |-> FALSE, deep |-> FALSE]

ScanUnescaped(s, c) ==                  \* mutant: a quote always ends the string
  IF s.inString THEN [s EXCEPT !.inString = c # "quote"]
  ELSE IF c = "quote" THEN [s EXCEPT !.inString = TRUE]
  ELSE IF c \in {"{", "["} THEN [s EXCEPT !.stack = Append(@, Closer(c))]
  ELSE IF c \in {"}", "]"} /\ s.stack # <<>> THEN [s EXCEPT !.stack = Front(@)]
  ELSE s
Scan(s, c) ==
  IF s.deep THEN s
  ELSE IF s.inString
  THEN [s EXCEPT !.escaped = ~@ /\ c = "backslash",
                 !.inString = s.escaped \/ c # "quote"]
  ELSE IF c = "quote" THEN [s EXCEPT !.inString = TRUE]
  ELSE IF c \in {"{", "["}
  THEN IF Len(s.stack) >= MaxStackDepth THEN [s EXCEPT !.deep = TRUE]
       ELSE [s EXCEPT !.stack = Append(@, Closer(c))]
  ELSE IF c \in {"}", "]"} /\ s.stack # <<>> /\ Last(s.stack) = c
  THEN [s EXCEPT !.stack = Front(@)]
  ELSE s

Scanning(t) ==                          \* what the loop has found before each character
  LET scan[i \in 0..Len(t)] == IF i = 0 THEN ScanStart ELSE Scan(scan[i - 1], t[i]) IN scan
Scanned(t) == Scanning(t)[Len(t)]

Meta == <<"comma", "meta">>             \* ,"_meta":{...}, balanced in itself
TooDeep == <<"{", "meta", "}">>

\* What is open is closed; an object gets its metadata before the last brace.
JSONAutoRepair(t) ==
  IF t = <<>> THEN <<"{", "}">>
  ELSE IF Head(t) \notin {"{", "["} THEN t \o <<"notice">>
  ELSE LET s == Scanned(t)
           kept == (IF s.escaped THEN Front(t) ELSE t) \o (IF s.inString THEN <<"quote">> ELSE <<>>)
           closers == Reverse(s.stack)
       IN IF s.deep THEN TooDeep
          ELSE IF s.stack # <<>> /\ Head(s.stack) = "}"
          THEN kept \o Front(closers) \o Meta \o <<"}">>
          ELSE kept \o closers


-----------------------------------------------------------------------------
CharArrives ==
  /\ Len(text) < MaxText
  /\ \E c \in Chars : text' = Append(text, c)

WatchdogSpec == WatchdogInit /\ [][CharArrives]_text

-----------------------------------------------------------------------------
\* How a JSON reader takes a text: within a string or not, what is open, and
\* whether a bracket has closed what it did not open.
ReadChar(r, c) ==
  CASE r.mode = "escape" -> [r EXCEPT !.mode = "string"]
    [] r.mode = "string" -> [r EXCEPT !.mode = CASE c = "backslash" -> "escape"
                                                 [] c = "quote" -> "plain"
                                                 [] OTHER -> "string"]
    [] OTHER -> CASE c = "quote" -> [r EXCEPT !.mode = "string"]
                  [] c \in {"{", "["} -> [r EXCEPT !.open = Append(@, c)]
                  [] c \in {"}", "]"} ->
                       IF r.open # <<>> /\ <<Last(r.open), c>> \in {<<"{", "}">>, <<"[", "]">>}
                       THEN [r EXCEPT !.open = Front(@)] ELSE [r EXCEPT !.wrong = TRUE]
                  [] OTHER -> r
ReadStart == [mode |-> "plain", open |-> <<>>, wrong |-> FALSE]
Readings(t) ==
  LET read[i \in 0..Len(t)] == IF i = 0 THEN ReadStart ELSE ReadChar(read[i - 1], t[i]) IN read
Reading(t) == Readings(t)[Len(t)]

\* A text that was well formed up to where it was cut, also within a string or an
\* escape, is given back with every string and bracket closed, in order.
RepairBalances ==
  text # <<>> /\ Head(text) \in {"{", "["} /\ ~Reading(text).wrong =>
    Reading(JSONAutoRepair(text)) = Reading(<<>>)

\* watchdog.go:36, "so callers' JSON parsers never fail": between brackets a
\* comma stands only after a value.
RepairParses ==
  ~Reading(text).wrong /\ text # <<>> /\ Head(text) = "{" =>
    LET t == JSONAutoRepair(text) IN
    \A i \in 2..Len(t) : t[i] = "comma" => t[i - 1] \notin {"{", "[", "comma"}

=============================================================================
