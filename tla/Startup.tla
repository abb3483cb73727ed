------------------------------- MODULE Startup ------------------------------
(***************************************************************************)
(* From argv to the workers: ParseCommandLine with the property files it   *)
(* reads, DBFactory::CreateDB, the conversions of main, and the checks of  *)
(* CoreWorkload::Init and main before each phase.  The DB is opened before *)
(* most of the properties are looked at, and those of the run phase are    *)
(* looked at when the load is over.                                        *)
(*                                                                         *)
(* A text is a sequence of words and blanks.  A line of a property file is *)
(* its text up to "=", whether there is one, and the text after it; `name` *)
(* and `means` are what its writer means by it.                            *)
(***************************************************************************)
EXTENDS Integers, Sequences, FiniteSetsExt

CONSTANTS
  ArgLists,    \* the argument lists (argv + 1) the process is started with
  Files,       \* the property files that can be opened: name -> lines
  OtherDashed  \* words beginning with "-" that are not options

Blank == " "

\* A word is what remains of a text without the blanks at its ends.
Stripped(text, word) ==
  \E i, j \in 0..Len(text) :
    /\ word = SubSeq(text, i + 1, j)
    /\ \A n \in 1..Len(text) : n <= i \/ n > j => text[n] = Blank
    /\ i < j => text[i + 1] # Blank /\ text[j] # Blank

\* A line of the file: a comment, one without "=", or name = value.
Comment(line) == line.text # << >> /\ line.text[1] = "#"
Assigns(line) == ~Comment(line) /\ line.eq

Line == [text : Seq(STRING), eq : BOOLEAN, value : Seq(STRING),
         name : Seq(STRING), means : Seq(STRING)]

ASSUME StartupAssumption ==
  /\ \A a \in ArgLists : a \in Seq(Seq(STRING))
  /\ \A f \in DOMAIN Files :
       /\ Files[f] \in Seq(Line)
       /\ \A n \in DOMAIN Files[f] : Assigns(Files[f][n]) =>
            /\ Stripped(Files[f][n].text, Files[f][n].name)
            /\ Stripped(Files[f][n].value, Files[f][n].means)

VARIABLES
  args,
  argindex,
  input,     \* the lines of the file being loaded that are still to be read
  props,     \* properties_: the property names that are set, and their texts
  pc,
  how,       \* "running" | "exit": exit(0) | "terminate": std::terminate
  db,        \* what CreateDB returned
  loaded     \* the load phase has been gone through

vars == <<args, argindex, input, props, pc, how, db, loaded>>

-----------------------------------------------------------------------------
(* Texts and properties *)

Text(word) == <<word>>

\* utils::Trim
Trim(text) ==
  LET words == {i \in DOMAIN text : text[i] # Blank}
  IN IF words = {} THEN << >> ELSE SubSeq(text, Min(words), Max(words))

\* std::stoi and std::stod: leading blanks are skipped, what follows the number
\* is ignored, and without a number they throw.
Digits == [w \in {"-1", "0", "1", "2", "3"} |->
             CASE w = "-1" -> -1 [] w = "0" -> 0 [] w = "1" -> 1 [] w = "2" -> 2 [] w = "3" -> 3]
Number(text) == LET words == {i \in DOMAIN text : text[i] # Blank}
                IN IF words = {} THEN "" ELSE text[Min(words)]
IsNumber(text) == Number(text) \in DOMAIN Digits
stoi(text) == Digits[Number(text)]

\* utils::StrToBool, after tolower.
IsTrue(text)  == text \in {Text("true"), Text("TRUE"), Text("1")}
IsFalse(text) == text \in {Text("false"), Text("FALSE"), Text("0")}
IsBool(text)  == IsTrue(text) \/ IsFalse(text)

\* props.GetProperty(key, default_value)
GetProperty(p, key, default) == IF Text(key) \in DOMAIN p THEN p[Text(key)] ELSE Text(default)

\* Mutant of SetProperty: map::insert, which keeps what is there.
SetPropertyOnce(p, key, value) ==
  [k \in DOMAIN p \cup {key} |-> IF k \in DOMAIN p THEN p[k] ELSE value]

SetProperty(p, key, value) ==
  [k \in DOMAIN p \cup {key} |-> IF k = key THEN value ELSE p[k]]

\* The properties Init of ycsbc.cc sets.
Preset ==
  [k \in {Text(name) : name \in {"dbname", "dbpath", "load", "run", "threadcount",
                                "dboption", "dbstatistics", "dbwaitforbalance"}} |->
     CASE k = Text("dbname") -> Text("basic")
       [] k = Text("dbpath") -> << >>
       [] k = Text("threadcount") -> Text("1")
       [] k = Text("dboption") -> Text("0")
       [] OTHER -> Text("false")]

\* The options that set a property, and the property each of them sets.
Setters == {<<"-threads", "threadcount">>, <<"-db", "dbname">>, <<"-host", "host">>,
            <<"-port", "port">>, <<"-slaves", "slaves">>, <<"-dbpath", "dbpath">>,
            <<"-load", "load">>, <<"-run", "run">>, <<"-dboption", "dboption">>,
            <<"-dbstatistics", "dbstatistics">>, <<"-dbwaitforbalance", "dbwaitforbalance">>}
SetOptions == {s[1] : s \in Setters}
Sets(option) == (CHOOSE s \in Setters : s[1] = option)[2]
Options == SetOptions \cup {"-P"}

\* StrStartWith(text, "-")
Dashed(text) == text # << >> /\ text[1] \in Options \cup OtherDashed \cup {"-1"}
Option(text) == IF Len(text) = 1 THEN text[1] ELSE Blank

-----------------------------------------------------------------------------
(* ParseCommandLine *)

Init ==
  /\ args \in ArgLists
  /\ argindex = 1
  /\ input = << >>
  /\ props = Preset
  /\ pc = "parse"
  /\ how = "running"
  /\ db = "none"
  /\ loaded = FALSE

At(label) == how = "running" /\ pc = label

Leave(way) == how' = way /\ UNCHANGED <<args, argindex, input, props, pc, db, loaded>>

\* while (argindex < argc && StrStartWith(argv[argindex], "-"))
AtOption == At("parse") /\ argindex <= Len(args) /\ Dashed(args[argindex])
HasValue == argindex + 1 <= Len(args)
Value == args[argindex + 1]

SetOption ==
  /\ AtOption /\ Option(args[argindex]) \in SetOptions /\ HasValue
  /\ props' = SetProperty(props, Text(Sets(Option(args[argindex]))), Value)
  /\ argindex' = argindex + 2
  /\ UNCHANGED <<args, input, pc, how, db, loaded>>

\* if (argindex >= argc): the usage message.
NoValue ==
  /\ AtOption /\ Option(args[argindex]) \in Options /\ ~HasValue
  /\ Leave("exit")

UnknownOption ==
  /\ AtOption /\ Option(args[argindex]) \notin Options
  /\ Leave("exit")

OpenFile ==
  /\ AtOption /\ Option(args[argindex]) = "-P" /\ HasValue
  /\ Value \in DOMAIN Files
  /\ input' = Files[Value]
  /\ pc' = "file"
  /\ UNCHANGED <<args, argindex, props, how, db, loaded>>

\* Load throws a utils::Exception; the handler is for std::string.
FileNotOpen ==
  /\ AtOption /\ Option(args[argindex]) = "-P" /\ HasValue
  /\ Value \notin DOMAIN Files
  /\ Leave("terminate")

\* The next line of the file.
LoadLine ==
  /\ At("file") /\ input # << >>
  /\ props' = IF Assigns(Head(input))
              THEN SetProperty(props, Trim(Head(input).text), Trim(Head(input).value))
              ELSE props
  /\ input' = Tail(input)
  /\ UNCHANGED <<args, argindex, pc, how, db, loaded>>

\* The end of the file: input.close(), and the next argument.
EndFile ==
  /\ At("file") /\ input = << >>
  /\ argindex' = argindex + 2
  /\ pc' = "parse"
  /\ UNCHANGED <<args, input, props, how, db, loaded>>

\* Mutant of EndParse: what follows the options is ignored.
EndParseAnyhow ==
  /\ At("parse") /\ ~AtOption
  /\ IF argindex = 1
     THEN Leave("exit")
     ELSE pc' = "create" /\ UNCHANGED <<args, argindex, input, props, how, db, loaded>>

\* if (argindex == 1 || argindex != argc): the usage message.
EndParse ==
  /\ At("parse") /\ ~AtOption
  /\ IF argindex = 1 \/ argindex # Len(args) + 1
     THEN Leave("exit")
     ELSE pc' = "create" /\ UNCHANGED <<args, argindex, input, props, how, db, loaded>>

-----------------------------------------------------------------------------
(* main *)

\* CreateDB; the name of the local RocksDB yields NULL like any other.
CreateDB ==
  /\ At("create")
  /\ props[Text("dbname")] \in {Text("basic"), Text("rocksdb-cloud")}
  /\ db' = props[Text("dbname")][1]
  /\ pc' = "convert"
  /\ UNCHANGED <<args, argindex, input, props, how, loaded>>

\* "Unknown database name", exit(0)
UnknownDB ==
  /\ At("create")
  /\ props[Text("dbname")] \notin {Text("basic"), Text("rocksdb-cloud")}
  /\ Leave("exit")

Converts ==
  /\ IsBool(props[Text("load")]) /\ IsBool(props[Text("run")])
  /\ IsNumber(props[Text("threadcount")])
  /\ IsBool(props[Text("dbwaitforbalance")])

\* load, run, num_threads, wait_for_balance
Convert ==
  /\ At("convert") /\ Converts
  /\ pc' = "load"
  /\ UNCHANGED <<args, argindex, input, props, how, db, loaded>>

ConvertThrows ==
  /\ At("convert") /\ ~Converts
  /\ Leave("terminate")

\* ZipfianGenerator(min, max): assert(num_items_ >= 2)
ZipfianOK(min, max) == max - min + 1 >= 2

\* GetFieldLenGenerator (the default is 100; as 3, it is at least 2)
FieldLenOK(p) ==
  LET len  == GetProperty(p, "fieldlength", "3")
      dist == GetProperty(p, "field_len_dist", "constant")
  IN /\ IsNumber(len)
     /\ \/ dist \in {Text("constant"), Text("uniform")}
        \/ dist = Text("zipfian") /\ ZipfianOK(1, stoi(len))

\* The key chooser; operationcount and insertproportion size the zipfian one,
\* and the skewed latest one has recordcount - 1 items.
KeyChooserOK(p) ==
  LET dist    == GetProperty(p, "requestdistribution", "uniform")
      records == stoi(GetProperty(p, "recordcount", ""))
      ops     == GetProperty(p, "operationcount", "")
      inserts == stoi(GetProperty(p, "insertproportion", "0"))
  IN \/ dist = Text("uniform")
     \/ dist = Text("zipfian") /\ IsNumber(ops)
        /\ ZipfianOK(0, records + stoi(ops) * inserts * 2 - 1)
     \/ dist = Text("latest") /\ ZipfianOK(0, (records - 1) - 1)

\* The scan length chooser runs from maxscanlength to maxscanlength.
ScanLenOK(p) ==
  LET dist == GetProperty(p, "scanlengthdistribution", "uniform")
      max  == GetProperty(p, "maxscanlength", "3")
  IN \/ dist = Text("uniform")
     \/ dist = Text("zipfian") /\ ZipfianOK(stoi(max), stoi(max))

\* What Init converts with stoi or stod, and has a default that it can convert.
Numeric == {"fieldcount", "readproportion", "updateproportion", "insertproportion",
            "scanproportion", "readmodifywriteproportion", "maxscanlength", "insertstart"}

\* CoreWorkload::Init returns: no conversion throws and no assertion fails.
WorkloadOK(p) ==
  /\ \A key \in Numeric : IsNumber(GetProperty(p, key, "0"))
  /\ FieldLenOK(p)
  /\ IsNumber(GetProperty(p, "recordcount", ""))
  /\ \A key \in {"readallfields", "writeallfields"} : IsBool(GetProperty(p, key, "true"))
  /\ KeyChooserOK(p)
  /\ ScanLenOK(p)

\* assert((int)actual_ops.size() == num_threads), after a loop from 0.
LaunchOK == stoi(props[Text("threadcount")]) >= 0

\* Mutant of LoadPhase: the workload is initialised by the run phase alone.
LoadPhaseUnchecked ==
  /\ At("load")
  /\ loaded' = IsTrue(props[Text("load")])
  /\ pc' = "run"
  /\ UNCHANGED <<args, argindex, input, props, how, db>>

\* if (load): its CoreWorkload, its workers, and their join.
LoadPhase ==
  /\ At("load")
  /\ IsTrue(props[Text("load")]) => WorkloadOK(props) /\ LaunchOK
  /\ loaded' = IsTrue(props[Text("load")])
  /\ pc' = "run"
  /\ UNCHANGED <<args, argindex, input, props, how, db>>

LoadFails ==
  /\ At("load")
  /\ IsTrue(props[Text("load")]) /\ ~(WorkloadOK(props) /\ LaunchOK)
  /\ Leave("terminate")

\* props[OPERATION_COUNT_PROPERTY] is map::at, and stoi.
OperationCountOK == Text("operationcount") \in DOMAIN props
                    /\ IsNumber(props[Text("operationcount")])

RunPhase ==
  /\ At("run")
  /\ IsTrue(props[Text("run")]) => WorkloadOK(props) /\ OperationCountOK /\ LaunchOK
  /\ pc' = "over"
  /\ UNCHANGED <<args, argindex, input, props, how, db, loaded>>

RunFails ==
  /\ At("run")
  /\ IsTrue(props[Text("run")]) /\ ~(WorkloadOK(props) /\ OperationCountOK /\ LaunchOK)
  /\ Leave("terminate")

Over == how # "running" \/ pc = "over"

Next ==
  \/ SetOption \/ NoValue \/ UnknownOption \/ OpenFile \/ FileNotOpen
  \/ LoadLine \/ EndFile \/ EndParse
  \/ CreateDB \/ UnknownDB \/ Convert \/ ConvertThrows
  \/ LoadPhase \/ LoadFails \/ RunPhase \/ RunFails
  \/ (Over /\ UNCHANGED vars)

Spec == Init /\ [][Next]_vars
-----------------------------------------------------------------------------
(* Properties *)

\* Pairs of an option and its value, as the usage message describes them.
Pairs(a) == [i \in 1..(Len(a) \div 2) |-> <<Option(a[2 * i - 1]), a[2 * i]>>]

\* A known option; a file that is there.
Good(o) == o[1] \in Options /\ (o[1] = "-P" => o[2] \in DOMAIN Files)

WellFormed(a) ==
  /\ a # << >> /\ Len(a) % 2 = 0
  /\ \A i \in DOMAIN Pairs(a) : Good(Pairs(a)[i])

\* What is wrong first is a file that cannot be opened.
MissesFile(a) ==
  \E i \in DOMAIN Pairs(a) :
    /\ Pairs(a)[i][1] = "-P" /\ Pairs(a)[i][2] \notin DOMAIN Files
    /\ \A j \in 1..(i - 1) : Good(Pairs(a)[j])

\* All that a command line assigns, with the place of each assignment: that of
\* its option, or that of its file and the line in it.
OfPair(i, o) ==
  IF o[1] = "-P"
  THEN {[pair |-> i, line |-> n, name |-> Files[o[2]][n].name, means |-> Files[o[2]][n].means] :
          n \in {j \in DOMAIN Files[o[2]] : Assigns(Files[o[2]][j])}}
  ELSE {[pair |-> i, line |-> 1, name |-> Text(Sets(o[1])), means |-> o[2]]}

Assigned(a) == UNION {OfPair(i, Pairs(a)[i]) : i \in DOMAIN Pairs(a)}

\* Assignment x is written after y.
After(x, y) == x.pair > y.pair \/ (x.pair = y.pair /\ x.line > y.line)

\* p is what a set of assignments makes of Preset, when the last one counts.
Results(p, all) ==
  /\ DOMAIN p = DOMAIN Preset \cup {x.name : x \in all}
  /\ \A k \in DOMAIN p :
       \/ (\A x \in all : x.name # k) /\ p[k] = Preset[k]
       \/ \E x \in all : /\ x.name = k /\ x.means = p[k]
                         /\ \A y \in all : y.name = k /\ y # x => After(x, y)

(***************************************************************************)
(* "Multiple files can be specified, and will be processed in the order    *)
(* specified" (UsageMessage): whatever options and files are mixed, each   *)
(* property has the value assigned to it last, without the blanks around   *)
(* it in a file, or else the one Init gave it; no other property is set.   *)
(***************************************************************************)
LastAssignmentWins == pc \notin {"parse", "file"} => Results(props, Assigned(args))

(***************************************************************************)
(* ParseCommandLine lets exactly those command lines through that are made *)
(* of known options, each with its value, and name files that are there:   *)
(* no other one gets as far as opening a DB.  What it refuses ends in a    *)
(* message and exit(0), except when the first thing wrong is a file that   *)
(* cannot be opened: `catch (const string &message)` does not catch what   *)
(* Load throws, and the process is aborted.                                *)
(***************************************************************************)
OpensOnlyWellFormed ==
  /\ pc \notin {"parse", "file"} => WellFormed(args)
  /\ how # "running" /\ pc \in {"parse", "file"} =>
       ~WellFormed(args) /\ how = (IF MissesFile(args) THEN "terminate" ELSE "exit")

(***************************************************************************)
(* When the load has been gone through, one thing alone can still stop the *)
(* run of the same process: an operationcount that is missing or not a     *)
(* number, which a load does not look at (unless the keys are zipfian).    *)
(***************************************************************************)
RunFollowsLoad ==
  loaded /\ how = "terminate" => ~OperationCountOK
=============================================================================
