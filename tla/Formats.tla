------------------------------- MODULE Formats -------------------------------
(***************************************************************************)
(* The conversions of plog on which what is found in a log depends         *)
(* (src/src/plog/include/plog/): from the values streamed to a record      *)
(* (Records) through formatters and converters to the bytes of the file,   *)
(* the names of rolled files and the function name taken from              *)
(* __PRETTY_FUNCTION__, each with a reference to compare it with.          *)
(*                                                                         *)
(* A string is a sequence of symbols.  The symbols are those some code     *)
(* looks for; one stands for each word it does not look into.              *)
(***************************************************************************)
EXTENDS Records

CONSTANTS
  Symbols,           \* what strings are made of
  kMaxMessageSize,   \* of CsvFormatter, 32000 in the code
  MaxLength,         \* bound: length of a string
  MaxNumber          \* bound: numbers of rolled files

ASSUME FormatsAssumption ==
  /\ kMaxMessageSize \in Nat /\ MaxLength \in Nat /\ MaxNumber \in Nat

Quote == "quote"
Semicolon == "semicolon"
Newline == "newline"
Return == "return"
BOM == "BOM"

Times(n, symbol) == [i \in 1..n |-> symbol]

-----------------------------------------------------------------------------
(* Fault: the last parenthesis is looked for.                              *)
processFuncNameLast(func) ==
  LET funcEnd == SelectLastInSeq(func, LAMBDA c : c = "(")
      space == SelectLastInSubSeq(func, 1, funcEnd - 1, LAMBDA c : c = Space)
  IN  IF funcEnd = 0 THEN func ELSE SubSeq(func, space + 1, funcEnd - 1)

(* processFuncName: what stands between the first parenthesis and the last *)
(* space before it.                                                        *)
processFuncName(func) ==
  LET funcEnd == SelectInSeq(func, LAMBDA c : c = "(")
      space == SelectLastInSubSeq(func, 1, funcEnd - 1, LAMBDA c : c = Space)
  IN  IF funcEnd = 0 THEN func ELSE SubSeq(func, space + 1, funcEnd - 1)

-----------------------------------------------------------------------------
(* Severities.                                                             *)

Severities == {"none", "fatal", "error", "warning", "info", "debug", "verbose"}

(* A name: its initial and the rest.                                       *)
severityToString(severity) ==
  CASE severity = "fatal" -> <<"F", "ATAL">>
    [] severity = "error" -> <<"E", "RROR">>
    [] severity = "warning" -> <<"W", "ARN">>
    [] severity = "info" -> <<"I", "NFO">>
    [] severity = "debug" -> <<"D", "EBUG">>
    [] severity = "verbose" -> <<"V", "ERB">>
    [] OTHER -> <<"N", "ONE">>

(* Only the initial is looked at, upper or lower case.                     *)
severityFromString(str) ==
  CASE str[1] \in {"F", "f"} -> "fatal"
    [] str[1] \in {"E", "e"} -> "error"
    [] str[1] \in {"W", "w"} -> "warning"
    [] str[1] \in {"I", "i"} -> "info"
    [] str[1] \in {"D", "d"} -> "debug"
    [] str[1] \in {"V", "v"} -> "verbose"
    [] OTHER -> "none"

-----------------------------------------------------------------------------
(* Formatters.  A record has a severity, the function of the statement as  *)
(* the compiler writes it, and the stream of its message.                  *)

FuncAndLine(record) == processFuncName(record.func) \o <<"@", "line">>

FuncMessageFormat(record) ==
  FuncAndLine(record) \o <<":", Space>> \o getMessage(record.message) \o <<Newline>>

MessageOnlyFormat(record) == getMessage(record.message) \o <<Newline>>

TxtFormat(record) ==
  <<"date", Space, "time", Space>> \o severityToString(record.severity) \o
  <<Space, "[", "tid", "]", Space, "[">> \o FuncAndLine(record) \o <<"]", Space>> \o
  getMessage(record.message) \o <<Newline>>

(* CsvFormatter.                                                           *)
Columns == <<"Date", "Time", "Severity", "TID", "This", "Function", "Message">>
Separated(fields) ==
  FlattenSeq([k \in DOMAIN fields |-> IF k = 1 THEN fields[k] ELSE <<Semicolon>> \o fields[k]])

header == Append(Separated([k \in DOMAIN Columns |-> <<Columns[k]>>]), Newline)

Limited(message) ==
  IF Len(message) > kMaxMessageSize
  THEN SubSeq(message, 1, kMaxMessageSize) \o Times(3, ".")
  ELSE message

(* Fault: the loop ends when getline has nothing to read.                  *)
TokensWhileGetline(s) ==
  LET all == Split(s, Quote)
  IN  IF Last(all) = <<>> THEN Front(all) ELSE all

(* The loop over std::getline with '"' as delimiter: it runs until the end *)
(* has been read, and so once more after a quote that ends the message.    *)
Tokens(s) == Split(s, Quote)

Quoted(s) ==
  FlattenSeq([k \in DOMAIN Tokens(s) |-> <<Quote>> \o Tokens(s)[k] \o <<Quote>>])

Fields(record) ==
  << <<"date">>, <<"time">>, severityToString(record.severity), <<"tid">>, <<"this">>,
     FuncAndLine(record) >>

CsvFormat(record) ==
  Separated(Fields(record)) \o <<Semicolon>> \o Quoted(Limited(getMessage(record.message)))
    \o <<Newline>>

-----------------------------------------------------------------------------
(* Converters.                                                             *)

fixLineEndings(s) ==
  FlattenSeq([i \in DOMAIN s |-> IF s[i] = Newline THEN <<Return, s[i]>> ELSE <<s[i]>>])

(* NativeEOLConverter<UTF8Converter>.  UTF-8 has one encoding of a symbol. *)
Converted(windows, s) == IF windows THEN fixLineEndings(s) ELSE s
ConvertedHeader(windows, s) == <<BOM>> \o Converted(windows, s)

-----------------------------------------------------------------------------
(* Reading a log back.                                                     *)

(* A program that opens a text file drops the byte order mark, and on      *)
(* Windows the line ending before each newline.                            *)
ReadText(windows, file) ==
  LET Dropped(i) ==
        \/ i = 1 /\ file[i] = BOM
        \/ windows /\ i < Len(file) /\ file[i] = Return /\ file[i + 1] = Newline
  IN  FlattenSeq([i \in DOMAIN file |-> IF Dropped(i) THEN <<>> ELSE <<file[i]>>])

(* Reference: how a program reads CSV.  Between quotes a doubled quote     *)
(* stands for one, and separators and newlines for themselves.             *)
ReadSymbol(r, c) ==
  CASE c = Quote /\ ~r.inside /\ ~r.after -> [r EXCEPT !.inside = TRUE]
    [] c = Quote /\ r.inside -> [r EXCEPT !.inside = FALSE, !.after = TRUE]
    [] c = Quote /\ r.after -> [r EXCEPT !.inside = TRUE, !.after = FALSE, !.field = Append(@, c)]
    [] c = Semicolon /\ ~r.inside ->
         [r EXCEPT !.after = FALSE, !.row = Append(@, r.field), !.field = <<>>]
    [] c = Newline /\ ~r.inside ->
         [r EXCEPT !.after = FALSE, !.rows = Append(@, Append(r.row, r.field)),
                   !.row = <<>>, !.field = <<>>]
    [] OTHER -> [r EXCEPT !.field = Append(@, c)]

ReadFrom(start, file) ==
  LET read[i \in 0..Len(file)] ==
        IF i = 0 THEN start ELSE ReadSymbol(read[i - 1], file[i])
  IN  read[Len(file)]

NothingRead == [rows |-> <<>>, row |-> <<>>, field |-> <<>>, inside |-> FALSE, after |-> FALSE]
ReadCsv(file) == ReadFrom(NothingRead, file)

-----------------------------------------------------------------------------
(* File names.                                                             *)

(* Fault: the first dot is taken.                                          *)
findFirstDot(fileName) == SelectInSeq(fileName, LAMBDA c : c = ".")

(* strrchr; 0 if there is none.                                            *)
findExtensionDot(fileName) == SelectLastInSeq(fileName, LAMBDA c : c = ".")

splitFileName(fileName) ==
  LET dot == findExtensionDot(fileName)
  IN  IF dot # 0
      THEN [noExt |-> SubSeq(fileName, 1, dot - 1),
            ext |-> SubSeq(fileName, dot + 1, Len(fileName))]
      ELSE [noExt |-> fileName, ext |-> <<>>]

(* Fault: a name without extension is not given a number.                  *)
buildFileNameWithExt(fileName, fileNumber) ==
  LET split == splitFileName(fileName)
  IN  split.noExt
        \o (IF fileNumber > 0 /\ split.ext # <<>>
            THEN <<".">> \o Numeral(fileNumber, 10) ELSE <<>>)
        \o (IF split.ext # <<>> THEN <<".">> \o split.ext ELSE <<>>)

(* A number goes before the extension.                                     *)
buildFileName(fileName, fileNumber) ==
  LET split == splitFileName(fileName)
  IN  split.noExt
        \o (IF fileNumber > 0 THEN <<".">> \o Numeral(fileNumber, 10) ELSE <<>>)
        \o (IF split.ext # <<>> THEN <<".">> \o split.ext ELSE <<>>)

isCsv(fileName) ==
  LET dot == findExtensionDot(fileName)
  IN  dot # 0 /\ SubSeq(fileName, dot, Len(fileName)) = <<".", "csv">>

Directory(fileName) == SubSeq(fileName, 1, SelectLastInSeq(fileName, LAMBDA c : c = "/"))

-----------------------------------------------------------------------------
(* Every string up to the bound.                                           *)

VARIABLE text

Init == text = <<>>

Type(symbol) == Len(text) < MaxLength /\ text' = Append(text, symbol)

(* Dumped, a symbol is the byte that is its ASCII code; a word is DEL.     *)
Code(symbol) ==
  CASE symbol = Nul -> 0 [] symbol = Newline -> 10 [] symbol = Return -> 13
    [] symbol = Space -> 32 [] symbol = Quote -> 34 [] symbol = "(" -> 40
    [] symbol = "." -> 46 [] symbol = "/" -> 47 [] symbol = Semicolon -> 59 [] OTHER -> 127

Done == Len(text) = MaxLength /\ UNCHANGED text

Next == (\E symbol \in Symbols : Type(symbol)) \/ Done

Spec == Init /\ [][Next]_text

(* A CSV log is read back as it was written, header and records, whatever  *)
(* quotes, separators, newlines and line endings the messages contain, on  *)
(* Linux and on Windows: severity, function and message, the message up to *)
(* its first nul, one beyond the limit as its beginning and three dots     *)
(* (CsvFormatter.h:12-50, NativeEOLConverter.h:23-40, UTF8Converter.h:9).  *)
CsvReadable ==
  \A k \in 0..Len(text), windows \in BOOLEAN :
    LET messages == <<SubSeq(text, 1, k), SubSeq(text, k + 1, Len(text))>>
        record(i) == [severity |-> IF i = 1 THEN "warning" ELSE "none",
                      func |-> <<"int", Space, "name", "(">> \o text,
                      message |-> Out(Record, String(messages[i]))]
        file == ConvertedHeader(windows, header) \o
                Converted(windows, CsvFormat(record(1))) \o
                Converted(windows, CsvFormat(record(2)))
        read == ReadCsv(ReadText(windows, file))
    IN  /\ Len(read.rows) = 3 /\ ~read.inside /\ read.row = <<>> /\ read.field = <<>>
        /\ read.rows[1] = [c \in DOMAIN Columns |-> <<Columns[c]>>]
        /\ \A i \in 1..2 :
             /\ Len(read.rows[i + 1]) = Len(Columns)
             /\ severityFromString(read.rows[i + 1][3]) = record(i).severity
             /\ read.rows[i + 1][6] = <<"name", "@", "line">>
             /\ read.rows[i + 1][7] = Limited(UpToNul(messages[i]))

(* Whichever formatter writes what is streamed, the line is found to end   *)
(* with this.                                                              *)
LineEndsWith(stream, message) ==
  LET record == [severity |-> "info", func |-> <<"name", "(", ")">>,
                 message |-> Streamed(Record, stream)]
      line == message \o <<Newline>>
  IN  /\ MessageOnlyFormat(record) = line
      /\ FuncMessageFormat(record) = <<"name", "@", "line", ":", Space>> \o line
      /\ IsSuffix(<<"[", "name", "@", "line", "]", Space>> \o line, TxtFormat(record))

(* What is streamed to a record is found in its line, whichever formatter  *)
(* writes it: no value is lost or changed by those before it, a string     *)
(* that contains nul loses its end but not what follows it, a null pointer *)
(* is named.  Only a dump shows in what follows: numbers are in            *)
(* hexadecimal (Record.h:112-174, 243-247, 292-318, 369-373, HexDump.h:50).*)
MessageComplete ==
  \A k \in 0..Len(text) :
    LET s == SubSeq(text, 1, k)
        r == SubSeq(text, k + 1, Len(text))
        Chars(t) == [i \in DOMAIN t |-> String(<<t[i]>>)]
        List(t) ==
          <<"[">> \o FlattenSeq([i \in DOMAIN t |->
             (IF i = 1 THEN <<>> ELSE <<",", Space>>) \o UpToNul(<<t[i]>>)]) \o <<"]">>
    IN  /\ LineEndsWith(<<String(s), Number(16), String(r)>>,
                        UpToNul(s) \o <<"1", "6">> \o UpToNul(r))
        /\ LineEndsWith(<<String(s), Null, Hex(<<7>>, 8), Number(16), String(r)>>,
                        UpToNul(s) \o <<"(null)", "0", "7", "1", "0">> \o UpToNul(r))
        /\ LineEndsWith(<<Container(Chars(s)), Pair(String(s), Number(5)), String(r)>>,
                        List(s) \o UpToNul(s) \o <<":", "5">> \o UpToNul(r))
        /\ LineEndsWith([i \in DOMAIN s |-> Char(s[i])] \o <<Container(<<Pair(Null, String(s))>>)>>
                          \o PrintVar(<<"a", "b">>, <<String(r), Number(10)>>),
                        Without(s, {Nul}) \o <<"[", "(null)", ":">> \o UpToNul(s) \o <<"]">>
                          \o <<"a", ":", Space>> \o UpToNul(r) \o <<",", Space>>
                          \o <<"b", ":", Space, "1", "0">>)

(* The bytes of a dump can be read from it, and are in groups of the given *)
(* size but for the last, which is not empty; without a size there is one  *)
(* group.  Dumped as characters they have one each, none of them a control *)
(* character that would break the line (HexDump.h:48-70, AscDump.h:23-31). *)
DumpGrouped ==
  \A group \in 0..(Len(text) + 1) :
    LET bytes == [i \in DOMAIN text |-> Code(text[i])]
        parts == Split(OutHex(Record, bytes, group).chars, groupSeparator)
        groups == [g \in DOMAIN parts |-> Split(parts[g], Space)]
        size == IF group = 0 THEN Len(bytes) ELSE group
        Nibble(digit) == SelectInSeq(Digits, LAMBDA d : d = digit) - 1
        read == [b \in DOMAIN FlattenSeq(groups) |->
                  LET pair == FlattenSeq(groups)[b] IN 16 * Nibble(pair[1]) + Nibble(pair[2])]
        asc == OutAsc(Record, bytes).chars
    IN  /\ text # <<>> =>
             /\ read = bytes
             /\ \A g \in 1..(Len(groups) - 1) : Len(groups[g]) = size
             /\ Len(Last(groups)) \in 1..size
        /\ Len(asc) = Len(text)
        /\ \A i \in DOMAIN text : text[i] \in {Nul, Newline, Return} => asc[i] = "."

(* The files of a log have different names, and that of file 0 is the one  *)
(* given, but for a dot at its end.  A rolled file has the format that     *)
(* plog::init chose by the extension, and stays in the directory of the    *)
(* log unless the only dots of the name are in that of the directory       *)
(* (RollingFileAppender.h:121-137, RollingFileInitializer.h:29-41,         *)
(* Util.h:324-347).                                                        *)
RolledNames ==
  LET name == UpToNul(text)
      Base(s) == SubSeq(s, Len(Directory(s)) + 1, Len(s))
  IN  /\ \A i, j \in 0..MaxNumber : i # j => buildFileName(name, i) # buildFileName(name, j)
      /\ buildFileName(name, 0) \in {name} \cup
           {Front(s) : s \in {t \in {name} : t # <<>> /\ Last(t) = "."}}
      /\ \A i \in 1..MaxNumber :
           LET rolled == buildFileName(name, i)
           IN  /\ isCsv(rolled) = isCsv(name)
               /\ \/ Directory(rolled) = Directory(name)
                  \/ Contains(Directory(name), ".") /\ ~Contains(Base(name), ".")

(* From "<type> <name>(<parameters>" the name is taken, whatever the types *)
(* of the parameters are (Util.h:298-322).                                 *)
FuncNameFound ==
  \A k \in 0..Len(text) :
    LET name == Without(SubSeq(text, 1, k), {Space, "("})
        parameters == SubSeq(text, k + 1, Len(text))
        type == Without(parameters, {"("})
    IN  /\ processFuncName(type \o <<Space>> \o name \o <<"(">> \o parameters) = name
        /\ processFuncName(name \o <<"(">> \o parameters) = name
=============================================================================
