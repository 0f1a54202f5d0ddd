-------------------------------- MODULE Records -------------------------------
(***************************************************************************)
(* What the device supports of statApp/src make of a value: devstat.cpp of *)
(* a table's, getParam.c of an environment variable, devcap.cpp of a mask. *)
(* A record is what it shows, the time it has, and its alarm, which the    *)
(* record support clears before each reading.                              *)
(***************************************************************************)
EXTENDS Values, Widths, FiniteSetsExt

CONSTANTS
    ValSize,    \* MAX_STRING_SIZE, sizeof(prec->val) of a stringin record
    LsiSize,    \* SIZV of a long string record
    MaskBits,   \* bits of a mask, 64 in the code
    Chars       \* the characters of a text

ASSUME RecordAssumption ==
    ValSize \in Nat /\ ValSize >= 4 /\ LsiSize \in Nat \ {0}
    /\ "." \in Chars

Alarm(rec, why) == [rec EXCEPT !.alarm = why]

-----------------------------------------------------------------------------
(* devstat.cpp: int64in and longin, bi and mbbi (no mask), ai of either    *)
(* kind of number, stringin and lsi.                                       *)

IsInteger(value) == "int" \in DOMAIN value
IsFloat(value) == "float" \in DOMAIN value
IsText(value) == "text" \in DOMAIN value

\* std::get throws for any other alternative, the ai support has its own test.
Fits(type, value) ==
    CASE type \in {"int64in", "longin", "bi"} -> IsInteger(value)
      [] type = "ai" -> IsInteger(value) \/ IsFloat(value)
      [] type \in {"stringin", "lsi"} -> IsText(value)

Shown(type, value) ==
    CASE type = "int64in" -> value
      [] type = "bi" -> Integer(value.int % Word)
      [] type = "stringin" -> Text(Prefix(value.text, ValSize - 1))
      [] type = "lsi" -> Text(Prefix(value.text, LsiSize - 1))
      [] IsFloat(value) -> value
      [] OTHER -> Integer(Signed(value.int, Word))      \* longin, RVAL of ai

\* What is wrong with the reading, if anything.
Trouble(type, current, param) ==
    IF param \notin DOMAIN current THEN "COMM"                \* lookup() throws
    ELSE IF current[param] = NoValue THEN "READ"
    ELSE IF ~Fits(type, current[param])
         THEN IF type = "ai" THEN "READ" ELSE "COMM"
    ELSE "none"

\* mutant: a value that is not there is no error
QuietIfAbsent(rec, type, current, param, time) ==
    LET trouble == Trouble(type, current, param)
    IN  IF trouble = "READ" THEN Alarm(rec, "none")
        ELSE [val |-> IF trouble = "none" THEN Shown(type, current[param]) ELSE rec.val,
              time |-> time, alarm |-> trouble]

\* A record with a trouble keeps what it shows; an ai record of the wrong type
\* takes the time all the same.
ReadValue(rec, type, current, param, time) ==
    LET trouble == Trouble(type, current, param)
        wrongType == /\ trouble = "READ" /\ type = "ai"
                     /\ current[param] # NoValue
    IN  [val |-> IF trouble = "none" THEN Shown(type, current[param]) ELSE rec.val,
         time |-> IF trouble = "none" \/ wrongType THEN time ELSE rec.time,
         alarm |-> trouble]

\* The ai record "Linux Stat Time": the table's time is also its value.
ReadTime(time) == [val |-> Float(<<time, 1>>), time |-> time, alarm |-> "none"]

-----------------------------------------------------------------------------
(* getParam.c: a variable's text or none, "...": a text that does not fit. *)

Dots == <<".", ".", ".">>

FitsBarely(s) == Len(s) <= ValSize      \* mutant: the nil is forgotten
FitsWhole(s) == Len(s) < ValSize

ReadParam(rec, set, s) ==
    IF ~set THEN Alarm(rec, "READ")
    ELSE IF FitsWhole(s) THEN [rec EXCEPT !.val = s, !.alarm = "none"]
    ELSE [rec EXCEPT !.val = SubSeq(s, 1, ValSize - 4) \o Dots, !.alarm = "COMM"]

-----------------------------------------------------------------------------
(* devcap.cpp: the names of the bits of a mask, in the order of the bits   *)
(* and not of the map, up to the record's nelm.                            *)

CapMap == [NET_ADMIN |-> 12, SYS_ADMIN |-> 21, SYS_NICE |-> 23, IPC_LOCK |-> 14]
ASSUME MaskAssumption == MaskBits \in Nat /\ \A bit \in Range(CapMap) : bit < MaskBits

CapName(bit) == CHOOSE name \in DOMAIN CapMap : CapMap[name] = bit

HasBit(mask, bit) == (mask \div 2^bit) % 2 = 1

\* The names so far, once a bit was looked at.
AfterBit(names, bit, mask, nelm) ==
    IF Len(names) < nelm /\ HasBit(mask, bit) /\ bit \in Range(CapMap)
    THEN Append(names, CapName(bit))
    ELSE names

Capabilities(mask, nelm) ==
    LET names[n \in 0 .. MaskBits] ==
            IF n = 0 THEN <<>> ELSE AfterBit(names[n - 1], n - 1, mask, nelm)
    IN  names[MaskBits]
===============================================================================
