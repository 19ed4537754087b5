--------------------------- MODULE MessagePrimitive ---------------------------
(***************************************************************************)
(* llms/completions/chat.py: a message of a thread as the JSON value a     *)
(* reasoning item seals, and what is read of it; responses/ingest/         *)
(* models.py, ingest.py: the same for main updates and for a thread that   *)
(* is sealed as a patch.                                                   *)
(*                                                                         *)
(* Nil is None.  A text is a string, a message's memory a JSON object.  In *)
(* a part, what is nested under the name of its type is its body.  The     *)
(* names of fields are numbers, in their sorting order (JsonPatch).        *)
(***************************************************************************)
EXTENDS JsonPatch, MessageContent

Keys == <<"arguments", "content", "data", "detail", "file", "file_data", "file_id", "file_url",
          "filename", "format", "id", "image_url", "input_audio", "memory", "message", "name",
          "reasoning_content", "refusal", "role", "text", "tool_call_id", "tool_calls", "type", "url">>
Key(name) == SelectInSeq(Keys, LAMBDA k: k = name)

(* An object with the fields that are not None.                            *)
Given(fields) ==
  Obj([k \in {Key(n) : n \in {f \in DOMAIN fields : fields[f] # Nil}} |-> fields[Keys[k]]])
Texts(record) == Given([n \in DOMAIN record |-> IF record[n] = Nil THEN Nil ELSE Str(record[n])])
List(values) == Arr(values)

-----------------------------------------------------------------------------
(* ChatContentText, ChatContentImage, ChatContentFile,                     *)
(* ChatContentInputAudio; content_to_primitive.                            *)
PartPrimitive(p) ==
  IF p.type = "text" THEN Texts(p)
  ELSE Given([n \in {"type", p.type} |-> IF n = "type" THEN Str(p.type) ELSE Texts(p.body)])
ContentPrimitive(content) ==
  CASE content = Nil   -> Nil
    [] IsText(content) -> Str(content.text)
    [] OTHER           -> List([i \in DOMAIN content.parts |-> PartPrimitive(content.parts[i])])

(* ChatMessage.to_primitive: what is None, and empty calls and memory, are *)
(* left out; an empty text is not None.                                    *)
OrNone(values, x) == IF values = <<>> THEN Nil ELSE x
Primitive(m) ==
  Given([role |-> Str(m.role), content |-> ContentPrimitive(m.content),
         tool_calls |-> OrNone(m.tool_calls,
                               List([i \in DOMAIN m.tool_calls |-> Texts(m.tool_calls[i])])),
         memory |-> IF Names(m.memory) = {} THEN Nil ELSE m.memory]
        @@ [n \in {"name", "refusal", "tool_call_id", "reasoning_content"} |->
              IF m[n] = Nil THEN Nil ELSE Str(m[n])])

(* Threads, and main updates with their MessagePatch.                      *)
ThreadPrimitive(msgs) == List([i \in DOMAIN msgs |-> Primitive(msgs[i])])
IsPatch(update) == "message" \in DOMAIN update
UpdatePrimitive(u) == IF IsPatch(u) THEN Given([message |-> Primitive(u.message)]) ELSE Primitive(u)
UpdatesPrimitive(us) == List([i \in DOMAIN us |-> UpdatePrimitive(us[i])])

-----------------------------------------------------------------------------
(* Reading.  A field that is missing is read as null.                      *)
Field(x, name) == IF Key(name) \in Names(x) THEN x.fields[Key(name)] ELSE Null
IsString(v)    == v.t = "string"

(* _required_string, _optional_string, _optional_literal_string            *)
RequiredString(v) == IsString(v) /\ v.s # ""
OptionalString(v) == v = Null \/ IsString(v)
Read(v) == IF v = Null THEN Nil ELSE v.s
ReadTexts(x, names) == [n \in names |-> Read(Field(x, n))]

BodyFields == [image_url |-> {"url", "detail", "file_id"},
               file |-> {"file_data", "file_id", "filename", "file_url", "detail"},
               input_audio |-> {"data", "format"}]
Details == [image_url |-> {"auto", "low", "high", "original"}, file |-> {"low", "high"}]

(* _content_part_from_primitive, content_from_primitive: what they accept  *)
(* and what they make of it.                                               *)
BodyOK(type, body) ==
  /\ IsObject(body)
  /\ \A n \in BodyFields[type] : OptionalString(Field(body, n))
  /\ IF type = "input_audio"
     THEN RequiredString(Field(body, "data")) /\ Read(Field(body, "format")) \in {"wav", "mp3"}
     ELSE Read(Field(body, "detail")) \in {Nil} \cup Details[type]
PartOK(p) ==
  /\ IsObject(p) /\ RequiredString(Field(p, "type"))
  /\ LET type == Field(p, "type").s
     IN  \/ type = "text" /\ IsString(Field(p, "text"))
         \/ type \in DOMAIN BodyFields /\ BodyOK(type, Field(p, type))
ReadPart(p) ==
  LET type == Field(p, "type").s
  IN  IF type = "text" THEN TextPart("text", Field(p, "text").s)
      ELSE [type |-> type, body |-> ReadTexts(Field(p, type), BodyFields[type])]
ContentOK(v) == OptionalString(v) \/ (IsArray(v) /\ \A i \in DOMAIN v.items : PartOK(v.items[i]))
ReadContent(v) ==
  CASE v = Null    -> Nil
    [] IsString(v) -> Text(v.s)
    [] IsArray(v)  -> Parts([i \in DOMAIN v.items |-> ReadPart(v.items[i])])

(* ChatToolCall.from_primitive                                             *)
CallFields == {"id", "name", "arguments"}
CallOK(c) == IsObject(c) /\ \A n \in CallFields : RequiredString(Field(c, n))

(* ChatMessage.from_primitive                                              *)
Roles == {"system", "developer", "user", "assistant", "tool"}
MessageFields == {"role", "content", "name", "refusal", "tool_calls", "tool_call_id",
                  "reasoning_content", "memory"}
MessageOK(x) ==
  /\ IsObject(x) /\ Names(x) \subseteq {Key(n) : n \in MessageFields}
  /\ IsString(Field(x, "role")) /\ Field(x, "role").s \in Roles
  /\ ContentOK(Field(x, "content"))
  /\ \A n \in {"name", "refusal", "tool_call_id", "reasoning_content"} : OptionalString(Field(x, n))
  /\ LET calls == Field(x, "tool_calls")
     IN  calls = Null \/ (IsArray(calls) /\ \A i \in DOMAIN calls.items : CallOK(calls.items[i]))
  /\ Key("memory") \in Names(x) => IsObject(Field(x, "memory"))
ReadMessage(x) ==
  LET calls  == Field(x, "tool_calls")
      memory == Field(x, "memory")
  IN  ReadTexts(x, {"name", "refusal", "tool_call_id", "reasoning_content"})
        @@ [role |-> Field(x, "role").s, content |-> ReadContent(Field(x, "content")),
            tool_calls |-> IF calls = Null THEN <<>>
                           ELSE [i \in DOMAIN calls.items |-> ReadTexts(calls.items[i], CallFields)],
            memory |-> IF memory = Null THEN Obj(<<>>) ELSE memory]

(* _apply_thread_patch, _required_message_list: Nil when it is refused.    *)
ReadThread(x) ==
  IF \A i \in DOMAIN x.items : MessageOK(x.items[i])
  THEN [i \in DOMAIN x.items |-> ReadMessage(x.items[i])] ELSE Nil

(* _required_main_update_list: a patch is told from a message by its keys. *)
LooksPatched(x) == Key("message") \in Names(x) /\ Key("role") \notin Names(x)
PatchOK(x)      == Names(x) = {Key("message")} /\ MessageOK(Field(x, "message"))
                     /\ Field(Field(x, "message"), "role") = Str("assistant")
ReadUpdates(x) ==
  IF \A i \in DOMAIN x.items :
       IF LooksPatched(x.items[i]) THEN PatchOK(x.items[i]) ELSE MessageOK(x.items[i])
  THEN [i \in DOMAIN x.items |->
          IF LooksPatched(x.items[i]) THEN [message |-> ReadMessage(Field(x.items[i], "message"))]
          ELSE ReadMessage(x.items[i])]
  ELSE Nil

(* A thread as a response leaves it, sealed as a patch of the thread it    *)
(* found and read back from both.                                          *)
Rebuilt(old, new) ==
  LET x == ThreadPrimitive(old)
  IN  ReadThread(Patched(x, Diff(<<>>, x, ThreadPrimitive(new))))
===============================================================================
