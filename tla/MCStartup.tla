----------------------------- MODULE MCStartup ------------------------------
(* Startup on every short argument list, and on longer ones that go on to  *)
(* the phases.                                                             *)
EXTENDS Startup

\* A line as it stands in a file, and what its writer means by it.
Written(name, value) == [text |-> name, eq |-> TRUE, value |-> value, name |-> name, means |-> value]
Entry(name, value) == Written(Text(name), Text(value))
Blanks(name, value) ==
  [Entry(name, value) EXCEPT !.text = <<" ", name, " ">>, !.value = <<" ", value, " ">>]
Remark(name, value) == Written(<<"#", name>>, Text(value))
NoEquals(word) == [Entry(word, "") EXCEPT !.eq = FALSE]

F(name) == Text(name)
MCFiles ==
  [f \in {F("uniform"), F("noops"), F("zipfian"), F("zipfian-noops"), F("latest"),
         F("latest-few"), F("scan"), F("field"), F("empty"), F("bool"), F("count")} |->
    CASE f = F("uniform") -> <<Remark("recordcount", "1"), Blanks("recordcount", "3"),
                               Entry("operationcount", "2"), Entry("load", "false")>>
      [] f = F("noops") -> <<NoEquals("operationcount"), Entry("recordcount", "2")>>
      [] f = F("zipfian") -> <<Entry("recordcount", "1"), Entry("operationcount", "2"),
                               Entry("insertproportion", "1"),
                               Entry("requestdistribution", "zipfian")>>
      [] f = F("zipfian-noops") -> <<Entry("recordcount", "3"),
                                     Entry("requestdistribution", "zipfian")>>
      [] f = F("latest") -> <<Entry("recordcount", "3"), Entry("operationcount", "2"),
                              Entry("requestdistribution", "latest")>>
      [] f = F("latest-few") -> <<Entry("recordcount", "2"), Entry("operationcount", "2"),
                                  Entry("requestdistribution", "latest")>>
      [] f = F("scan") -> <<Entry("recordcount", "3"), Entry("operationcount", "2"),
                            Entry("scanlengthdistribution", "zipfian")>>
      [] f = F("field") -> <<Entry("recordcount", "3"), Entry("operationcount", "2"),
                             Entry("field_len_dist", "zipfian"), Entry("fieldlength", "1")>>
      [] f = F("empty") -> << >>
      [] f = F("bool") -> <<Blanks("readallfields", "maybe"), Entry("dbname", "rocksdb")>>
      [] f = F("count") -> <<Entry("operationcount", "many")>>]

Tokens == {Text("-threads"), Text("-db"), Text("-P"), Text("-x"), Text("rocksdb-cloud"),
           Text("2"), F("uniform"), F("missing")}
Short == UNION {[1..n -> Tokens] : n \in 0..4}

\* What the scripts write, with the options before or after the files.
Phases(l, r) == <<Text("-load"), l, Text("-run"), r>>
Long ==
  {<<Text("-threads"), n>> \o Phases(l, r) \o <<Text("-P"), f>> :
     n \in {Text("2"), Text("0"), Text("-1")}, l \in {Text("true"), Text("FALSE")},
     r \in {Text("true"), <<" ", "true">>}, f \in DOMAIN MCFiles}
  \cup
  {<<Text("-P"), f, Text("-P"), g>> \o Phases(Text("1"), Text("1")) :
     f, g \in DOMAIN MCFiles}

MCArgLists == Short \cup Long
=============================================================================
