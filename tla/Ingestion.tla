------------------------------- MODULE Ingestion -------------------------------
(***************************************************************************)
(* From an uploaded list to the requests of the extraction: the parsers    *)
(* and ingest_user_ids of src/src/extractors/ingestion.py, the event that  *)
(* ingest_handler passes on, and the period extract_handler asks the NPAW  *)
(* API for, user by user.                                                  *)
(*                                                                         *)
(* An id is written in some spelling, and Lower maps it to its normal one. *)
(* A date is a value; NoDate is an empty cell or a key that is missing,    *)
(* Null a cell a short CSV row lacks or a null in JSON.  A null id in JSON *)
(* is the ill-formed id "None".                                            *)
(***************************************************************************)
EXTENDS Naturals, SequencesExt

CONSTANTS
    Spellings,   \* how ids may be written
    Lower,       \* a spelling in lower case
    WellFormed,  \* the spellings that match UUID_VALID_REGEX
    NoId,        \* an empty id cell
    NoDate, Null,
    NoneText,    \* str(None)
    LastMonths,  \* "last6months", the API's own default
    WindowStart, Today,  \* the default period of extract_handler
    Files,       \* lists that may be uploaded: sequences of rows
    Formats,     \* "csv", "json", "other": neither of them
    Globals,     \* from_date and to_date that an event may carry
    MaxValidIds  \* MAX_VALID_IDS (50,000 in the code)

Dates == STRING \cup {NoDate, Null}

Row == [id : Spellings \cup {NoId}, from : Dates, to : Dates]

(* The regular expression ignores the case.                                *)
ASSUME IngestionAssumption ==
    /\ NoId \notin Spellings
    /\ NoDate \notin {NoneText, WindowStart}
    /\ \A f \in Files : f \in Seq(Row)
    /\ Globals \subseteq [from : Dates, to : Dates]
    /\ WellFormed \subseteq Spellings
    /\ Lower \in [Spellings -> Spellings]
    /\ \A s \in Spellings : Lower[Lower[s]] = Lower[s]
    /\ \A s \in Spellings : s \in WellFormed <=> Lower[s] \in WellFormed
    /\ Formats \subseteq {"csv", "json", "other"}
    /\ MaxValidIds \in Nat

VARIABLES
    file, format,  \* what was uploaded
    given,         \* from_date and to_date of the event
    line,          \* the next row
    ids,           \* raw_ids
    dates,         \* user_dates
    taken,         \* how many of raw_ids have been looked at
    at,            \* where the two stages stand
    valid,         \* valid_user_ids
    global,        \* global_from_date and global_to_date
    asked          \* the period each user was extracted for, in their order

ingestVars == <<file, format, given, line, ids, dates, taken, at, valid, global, asked>>

Undated == [from |-> NoDate, to |-> NoDate]

IngestInit ==
    /\ file \in Files
    /\ format \in Formats
    /\ given \in Globals
    /\ line = 1
    /\ ids = <<>>
    /\ dates = [s \in Spellings |-> Undated]
    /\ taken = 0
    /\ at = "parse"
    /\ valid = <<>>
    /\ global = Undated
    /\ asked = <<>>

-----------------------------------------------------------------------------
(* The parsers                                                             *)

(* Without the column or the key that names the ids nothing can be parsed. *)
Unreadable ==
    /\ at = "parse"
    /\ format = "other"
    /\ at' = "raised"
    /\ UNCHANGED <<file, format, given, line, ids, dates, taken, valid, global, asked>>

(* None.strip() raises AttributeError in the CSV parser; the JSON parser   *)
(* takes str() of what it finds, and a null becomes a date of its own.     *)
Breaks(row) == format = "csv" /\ row.id # NoId /\ Null \in {row.from, row.to}

DateText(d) == IF d = Null THEN NoneText ELSE d

\* Mutant: the periods are kept under the ids as they are written.
DateKeyAsWritten(id) == id

DateKey(id) == Lower[id]

RowDates(row, old) ==
    IF row.from = NoDate /\ row.to = NoDate THEN old
    ELSE [from |-> DateText(row.from), to |-> DateText(row.to)]

ReadRow ==
    /\ at = "parse"
    /\ format # "other"
    /\ line \in DOMAIN file
    /\ ~Breaks(file[line])
    /\ line' = line + 1
    /\ LET row == file[line] IN
       IF row.id = NoId THEN UNCHANGED <<ids, dates>>
       ELSE /\ ids' = Append(ids, row.id)
            /\ dates' = [dates EXCEPT ![DateKey(row.id)] = RowDates(row, @)]
    /\ UNCHANGED <<file, format, given, taken, at, valid, global, asked>>

RowBreaks ==
    /\ at = "parse"
    /\ line \in DOMAIN file
    /\ Breaks(file[line])
    /\ at' = "raised"
    /\ UNCHANGED <<file, format, given, line, ids, dates, taken, valid, global, asked>>

-----------------------------------------------------------------------------
(* ingest_user_ids                                                         *)

\* Mutant: two spellings of one id are two ids.
SameSpelling(a, b) == a = b

SameId(a, b) == Lower[a] = Lower[b]

(* The end of the list; without any id in it: IngestionError.              *)
ListRead ==
    /\ at = "parse"
    /\ format # "other"
    /\ line = Len(file) + 1
    /\ at' = IF ids = <<>> THEN "raised" ELSE "select"
    /\ UNCHANGED <<file, format, given, line, ids, dates, taken, valid, global, asked>>

SeenBefore(k) == \E j \in 1 .. k - 1 : SameId(ids[j], ids[k])

(* The first spelling of every id counts, and is kept if it is a UUID.     *)
TakeId ==
    /\ at = "select"
    /\ taken < Len(ids)
    /\ taken' = taken + 1
    /\ valid' = IF ~SeenBefore(taken + 1) /\ ids[taken + 1] \in WellFormed
                THEN Append(valid, Lower[ids[taken + 1]]) ELSE valid
    /\ UNCHANGED <<file, format, given, line, ids, dates, at, global, asked>>

(* No valid id or too many of them: IngestionError.                        *)
Ingest ==
    /\ at = "select"
    /\ taken = Len(ids)
    /\ at' = IF valid # <<>> /\ Len(valid) <= MaxValidIds THEN "ingested" ELSE "raised"
    /\ UNCHANGED <<file, format, given, line, ids, dates, taken, valid, global, asked>>

-----------------------------------------------------------------------------
(* extract_handler                                                         *)

AllUndated == \A s \in Spellings : dates[s] = Undated

(* The default period replaces what the event says of the end, too.        *)
ChoosePeriod ==
    /\ at = "ingested"
    /\ at' = "extract"
    /\ global' = IF given.from = NoDate /\ AllUndated
                 THEN [from |-> WindowStart, to |-> Today] ELSE given
    /\ UNCHANGED <<file, format, given, line, ids, dates, taken, valid, asked>>

FirstDate(a, b) == IF a # NoDate THEN a ELSE b

PeriodOf(u) ==
    [from |-> FirstDate(dates[u].from, FirstDate(global.from, LastMonths)),
     to |-> FirstDate(dates[u].to, global.to)]

AskFor ==
    /\ at = "extract"
    /\ Len(asked) < Len(valid)
    /\ asked' = Append(asked, PeriodOf(valid[Len(asked) + 1]))
    /\ UNCHANGED <<file, format, given, line, ids, dates, taken, at, valid, global>>

IngestNext == Unreadable \/ ReadRow \/ RowBreaks \/ ListRead \/ TakeId \/ Ingest
                \/ ChoosePeriod \/ AskFor

IngestSpec == IngestInit /\ [][IngestNext]_ingestVars

-----------------------------------------------------------------------------
(* Properties                                                              *)

Naming(u) == {i \in DOMAIN file : file[i].id # NoId /\ Lower[file[i].id] = u}

Dated(i) == file[i].from # NoDate \/ file[i].to # NoDate

(* R1.2, R1.3: what was ingested is every well-formed id of the list once, *)
(* however often and in whatever case it is written, in the order of the   *)
(* first mentions; a list is refused only if it cannot be read to its end  *)
(* or if it names no such id or more than the limit.                       *)
IngestedExactly ==
    LET named == {u \in WellFormed : Naming(u) # {}}
        First(u) == CHOOSE i \in Naming(u) : \A j \in Naming(u) : i <= j
    IN  /\ at \in {"ingested", "extract"} =>
              /\ ToSet(valid) = named
              /\ \A i, j \in DOMAIN valid :
                    i < j => First(valid[i]) < First(valid[j])
        /\ at = "raised" =>
              \/ format = "other"
              \/ \E i \in DOMAIN file : Breaks(file[i])
              \/ Cardinality(named) \notin 1 .. MaxValidIds

(* A user is extracted for the period of the last row that dates that user *)
(* in any spelling, the whole of it; what that row leaves open, or a user  *)
(* no row dates, gets the event's period or the default, and never the     *)
(* dates of another user or of an earlier row.                             *)
PeriodIsOwn ==
    \A k \in DOMAIN asked :
        LET mine == {i \in Naming(valid[k]) : Dated(i)}
            last == CHOOSE i \in mine : \A j \in mine : j <= i
            default == IF given.from = NoDate
                          /\ \A i \in DOMAIN file : file[i].id # NoId => ~Dated(i)
                       THEN [from |-> WindowStart, to |-> Today]
                       ELSE [given EXCEPT !.from = FirstDate(@, LastMonths)]
        IN  asked[k] =
              IF mine = {} THEN default
              ELSE [from |-> FirstDate(DateText(file[last].from), default.from),
                    to |-> FirstDate(DateText(file[last].to), default.to)]
=============================================================================
