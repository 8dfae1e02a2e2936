----------------------------- MODULE MCRequestPath -----------------------------
(***************************************************************************)
(* Bounds for RequestPath, one exchange of every kind with answers of up to *)
(* three parts, and for the parts of an exchange with modules of their own: *)
(* its classification, the bytes of its bodies from the varint to the frame, *)
(* the message a handler edits, and the models it lists.  A behaviour is one *)
(* of the six; the others rest at one of their initial states.              *)
(***************************************************************************)
EXTENDS RequestPath, RpcFraming, WireFormat, MessageCodec, RequestRouting, ModelCatalogue

VARIABLE part   \* whose behaviour this is

mcVars == <<part, vars, rpcVars, wireVars, codecVars, routeVars, catalogueVars>>

-----------------------------------------------------------------------------
(* Frames of a byte with four values: an empty message, a short one, and one *)
(* whose length takes both bytes.                                           *)
MCPayload == {<<>>, <<1>>, <<1, 0, 3, 2, 1>>}

(* Two fields of every wire type, negative, zero and largest values, bytes   *)
(* longer than a varint's first group; all prefixes of the message.          *)
MCFields ==
  [no : {1, 5}, type : {Varint}, value : {-1, 0, 1, 13}]
  \cup [no : {1, 2}, type : {Fixed32, Fixed64}, value : {0, 31}]
  \cup [no : {1, 3}, type : {LengthDelimited}, bytes : {<<>>, <<7, 0>>, <<0, 1, 2, 3, 4>>}]

(* A message with a field of every kind, one of an unknown number (20, 21),   *)
(* one whose type is not in the schema (12); texts with a byte order mark in  *)
(* front and elsewhere, and with bytes that are not UTF-8.                   *)
Plain(no, type, repeated) == [no |-> no, kind |-> "scalar", type |-> type, repeated |-> repeated]
Message(no, type, repeated) == [no |-> no, kind |-> "message", type |-> type, repeated |-> repeated]
Map(no, v) == [no |-> no, kind |-> "map", type |-> "entry", repeated |-> FALSE, value |-> v]
MCSchema ==
  [t \in {"Top", "Sub"} |->
     IF t = "Sub" THEN <<Plain(1, "int32", FALSE), Message(2, "Sub", FALSE), Plain(3, "string", FALSE)>>
     ELSE <<Plain(1, "int32", FALSE), Plain(2, "sint32", FALSE), Plain(3, "bool", FALSE),
            Plain(4, "string", FALSE), Plain(5, "enum", FALSE), Plain(6, "int32", TRUE),
            Plain(7, "string", TRUE), Message(8, "Sub", FALSE), Message(9, "Sub", TRUE),
            Map(10, Message(2, "Sub", FALSE)), Map(11, Plain(2, "enum", FALSE)),
            Message(12, "Gone", FALSE), Plain(13, "int64", FALSE), Plain(14, "enum", TRUE),
            Map(15, Plain(2, "string", FALSE))>>]
InmostFields == <<Number(9, 5)>>
InnerFields == <<Number(1, 63), Nested(2, InmostFields), Number(9, 5)>>
MarkedFields == <<Text(3, <<Bom, "a">>)>>
MCWireFields ==
  {Number(1, 5), Number(1, 63), Number(2, 3), Number(3, 2), Text(4, <<"a">>), Text(4, <<"a", Bom>>),
   Text(4, <<Bom, "a">>), Text(7, <<"a", Invalid>>), Nested(9, MarkedFields),
   Nested(15, <<Text(1, <<"k">>), Text(2, <<"a">>)>>), Nested(15, <<Text(1, <<Bom, "k">>)>>),
   Number(5, 2), Number(5, 63), Number(6, 62), Packed(6, <<1, 63>>), Packed(6, <<>>),
   Text(7, <<"a">>), Nested(8, InnerFields), Nested(8, <<>>), Nested(9, InnerFields), Nested(9, <<>>),
   Nested(10, <<Text(1, <<"k">>), Nested(2, InnerFields)>>),
   Nested(10, <<Nested(2, <<>>), Text(1, <<"k">>)>>), Nested(10, <<Number(3, 1), Nested(2, InnerFields)>>),
   Nested(10, <<Text(1, <<"k">>)>>),
   Nested(11, <<Text(1, <<"k">>), Number(2, 2)>>),
   Nested(12, InnerFields), Number(13, 60), Packed(14, <<63>>), Number(20, 63), Nested(21, InnerFields)}
MCMessages == {"Sub"} \X {InnerFields, InmostFields, MarkedFields, <<>>}
\* The codec calls itself; behind a LET, TLC's account of the actions does not
\* follow the calls.
MCDecode(type, wires) == LET inner == DecodeMessage(type, wires) IN inner
MCEncode(type, message) == LET inner == EncodeMessage(type, message) IN inner
MCMeaning(type, wires) == LET inner == Meaning(type, wires) IN inner
MCEdits == {[no |-> 1, to |-> 2], [no |-> 4, to |-> <<"c">>]}

(* Rules of every kind with overlapping claims, and lines that are none.     *)
Line(rest, text) == [rest |-> rest, text |-> text, comment |-> FALSE]
Service == "s.x"
Overlapping ==
  <<Line(FALSE, <<Service>>), Line(FALSE, <<"broken">>), Line(FALSE, <<Service, "/", "m">>),
    Line(TRUE, <<"/", "a", "*">>), Line(TRUE, <<"a", "/", "b", "*">>),
    Line(TRUE, <<"/", "a", "/", "b">>), [rest |-> FALSE, text |-> <<Service>>, comment |-> TRUE]>>
Malformed ==
  <<Line(FALSE, <<Service, "/", "m">>), Line(FALSE, <<Service, "/", "m", "/", "n">>),
    Line(FALSE, <<"/", "m">>), Line(FALSE, <<Service, "/">>), Line(TRUE, <<"*">>),
    Line(TRUE, <<>>), Line(FALSE, <<>>)>>
MCSettings == [byok : BOOLEAN, hosts : {{"h1"}, {"h2"}}, rules : {Overlapping, Malformed}]
MCSpelled == [s \in {"h1", "H1", "h2", ""} |-> IF s = "H1" THEN "h1" ELSE s]
MCTokens == {"/", "*", "?", "#", Service, "broken", "a", "b", "c", "m", "n", "o", "q", "none"}
MCNoPath == <<"none">>
MCAsked ==
  {MCNoPath, <<>>, <<"/">>, <<"/", "a">>, <<"/", "m">>, <<"/", "?", "m">>,
   <<"/", Service, "/", "m">>, <<"/", Service, "/", "n", "?", "q">>,
   <<"/", Service, "/", "n", "/", "o">>, <<"/", Service, "/">>,
   <<"/", "a", "/", "b">>, <<"/", "a", "/", "b", "#", "?", "c">>, <<"/", "a", "/", "b", "/", "c">>}

(* Providers that are off, without a key, with an id twice, with an id of     *)
(* Cursor's, and the same id at two of them.                                 *)
Model(id, on, name) == [id |-> id, enabled |-> on, wire |-> name]
Provider(id, on, key, models) == [id |-> id, enabled |-> on, key |-> key, models |-> models]
MCDocuments ==
  {<<>>,
   <<Provider("p", TRUE, TRUE, <<Model("fast", TRUE, "wf"), Model("big", TRUE, "wb"), Model("big", TRUE, "wb2")>>),
     Provider("q", TRUE, TRUE, <<Model("big", TRUE, "qb"), Model("own", TRUE, "qo")>>)>>,
   <<Provider("p", FALSE, TRUE, <<Model("big", TRUE, "wb")>>),
     Provider("q", TRUE, TRUE, <<Model("big", TRUE, "qb"), Model("fast", FALSE, "qf")>>)>>,
   <<Provider("p", TRUE, FALSE, <<Model("big", TRUE, "wb")>>)>>}
MCOfficial == {{"own"}, {"own", "auto"}}

-----------------------------------------------------------------------------
PathRests == request = (CHOOSE r \in Requests : TRUE) /\ body = "coming" /\ Init
RpcRests == rpc = [protocol |-> "grpc", request |-> <<>>, framed |-> FALSE] /\ RpcInit
WireRests == fieldsWritten = <<>> /\ WireInit
CodecRests == wireIn = <<>> /\ CodecInit
RouteRests == setting = (CHOOSE s \in MCSettings : TRUE) /\ RouteInit
CatalogueRests == document = <<>> /\ byok = FALSE /\ CatalogueInit

MCInit ==
  \/ part = "path" /\ RpcRests /\ WireRests /\ CodecRests /\ RouteRests /\ CatalogueRests /\ Init
  \/ part = "rpc" /\ PathRests /\ WireRests /\ CodecRests /\ RouteRests /\ CatalogueRests /\ RpcInit
  \/ part = "wire" /\ PathRests /\ RpcRests /\ CodecRests /\ RouteRests /\ CatalogueRests /\ WireInit
  \/ part = "codec" /\ PathRests /\ RpcRests /\ WireRests /\ RouteRests /\ CatalogueRests /\ CodecInit
  \/ part = "route" /\ PathRests /\ RpcRests /\ WireRests /\ CodecRests /\ CatalogueRests /\ RouteInit
  \/ part = "models" /\ PathRests /\ RpcRests /\ WireRests /\ CodecRests /\ RouteRests /\ CatalogueInit

PathSteps ==
  part = "path" /\ Next /\ UNCHANGED <<part, rpcVars, wireVars, codecVars, routeVars, catalogueVars>>
RpcSteps ==
  part = "rpc" /\ RpcNext /\ UNCHANGED <<part, vars, wireVars, codecVars, routeVars, catalogueVars>>
WireSteps ==
  part = "wire" /\ WireNext /\ UNCHANGED <<part, vars, rpcVars, codecVars, routeVars, catalogueVars>>
CodecSteps ==
  part = "codec" /\ CodecNext /\ UNCHANGED <<part, vars, rpcVars, wireVars, routeVars, catalogueVars>>
RouteSteps ==
  part = "route" /\ RouteNext /\ UNCHANGED <<part, vars, rpcVars, wireVars, codecVars, catalogueVars>>
ModelSteps ==
  part = "models" /\ CatalogueNext /\ UNCHANGED <<part, vars, rpcVars, wireVars, codecVars, routeVars>>

MCNext == PathSteps \/ RpcSteps \/ WireSteps \/ CodecSteps \/ RouteSteps \/ ModelSteps

\* The exchange's fairness; the other parts owe no step.
MCSpec == MCInit /\ [][MCNext]_mcVars /\ Fairness
=============================================================================
