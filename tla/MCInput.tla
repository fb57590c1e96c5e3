------------------------------ MODULE MCInput -------------------------------
(* A small instance of Input for TLC.                                      *)
EXTENDS Input

F(kind, pointer) == [kind |-> kind, pointer |-> pointer]

(* A narrow integer first, so that an error comes before and behind.       *)
SomeFields == <<F("string", FALSE), F("int8", TRUE), F("slice", TRUE)>>

SomeReadable == [string |-> {"", "1", "300"}, int8 |-> {"1"},
                 int |-> {"1", "300"}]

R(names, kind, query, form, fault, length, ends, delimited) ==
  [names |-> names, kind |-> kind, query |-> query, form |-> form,
   fault |-> fault, length |-> length, ends |-> ends, delimited |-> delimited]

Faults == {"none", "malformed", "unreadable"}

(* No document, one that fits into the limit with more behind it, one that *)
(* does not, and two, of which the first fits alone.                       *)
SomeEnds == {<<>>, <<2>>, <<4>>, <<1, 3>>}

SomeSent ==
  {R({"json"}, "multipart", Unset, <<"1", "1", Absent>>, "none", 1, <<>>, TRUE)}
  \cup {R({}, "multipart", <<Absent, "1", Absent>>, f, b, 1, <<>>, TRUE) :
     f \in {<<"1", "1", Absent>>, <<Absent, "300", "1">>}, b \in Faults}
  \cup {R(n, "urlencoded", q, f, b, 1, <<>>, TRUE) :
     n \in {{"form"}, {"json", "form"}},
     q \in {Unset, <<"1", "1", "1">>, <<"1", "", Absent>>},
     f \in {<<"1", Absent, "1">>, <<"", "300", "1">>}, b \in Faults}
  \cup {R(n, k, Unset, Unset, "none", 4, e, d) :
     n \in {{"json"}, {"json", "xml"}, {"json", "form"}, {}},
     k \in {"json", "xml"}, e \in SomeEnds, d \in BOOLEAN}

SomeFiles ==
  [size : {0, 3}, type : {"png"}, ext : {".png"}]
  \cup {[size |-> 2, type |-> "html", ext |-> ".png"],
        [size |-> 1, type |-> "png", ext |-> ".exe"]}

SomeLimits ==
  {[max |-> m, types |-> t, exts |-> e] :
     m \in {0, 2, 3}, t \in {{}, {"png"}}, e \in {{}, {".png"}}}
=============================================================================
