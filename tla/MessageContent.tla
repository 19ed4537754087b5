---------------------------- MODULE MessageContent ----------------------------
(***************************************************************************)
(* responses/ingest/content.py: a message of a thread as the parts of an   *)
(* output item, the parts of a request's item as a message of a thread.    *)
(*                                                                         *)
(* Content is a text or a list of parts; a text is the sequence of its     *)
(* pieces, so texts that are joined are concatenated.  Nil is None.        *)
(***************************************************************************)
EXTENDS Integers, Sequences, SequencesExt

CONSTANT Nil

Text(t)   == [text |-> t]
Parts(ps) == [parts |-> ps]
IsText(content) == content # Nil /\ "text" \in DOMAIN content
OfType(ps, type) == SelectSeq(ps, LAMBDA p: p.type = type)
TextPart(type, t) == [type |-> type, text |-> t]
Refusal(t) == [type |-> "refusal", refusal |-> t]
NewLine == <<"\n">>

Message(role, content, refusal) == [role |-> role, content |-> content, refusal |-> refusal]

(* _part, of a user's or a tool's content.                                 *)
Part(p) ==
  CASE p.type \in {"input_text", "output_text"} -> TextPart("text", p.text)
    [] p.type = "input_image" ->
         [type |-> "image_url", url |-> p.image_url, detail |-> p.detail, file_id |-> p.file_id]
    [] p.type = "input_file" -> [p EXCEPT !.type = "file"]
Content(content) ==
  IF IsText(content) THEN content
  ELSE Parts([i \in DOMAIN content.parts |-> Part(content.parts[i])])

(* _assistant_message_content: a single text is a text again.              *)
AssistantMessage(content) ==
  LET texts     == OfType(content.parts, "output_text")
      refusals  == OfType(content.parts, "refusal")
      refusal   == IF refusals = <<>> THEN Nil
                   ELSE FlattenSeq([i \in DOMAIN refusals |->
                          (IF i = 1 THEN <<>> ELSE NewLine) \o refusals[i].refusal])
      said      == CASE texts = <<>> /\ refusal # Nil -> Nil
                     [] Len(texts) = 1 -> Text(texts[1].text)
                     [] OTHER -> Content(Parts(texts))
  IN  IF IsText(content) THEN Message("assistant", content, Nil)
      ELSE Message("assistant", said, refusal)

(* message: of a request's message item.                                   *)
FromItem(item) ==
  IF item.role = "assistant" THEN AssistantMessage(item.content)
  ELSE Message(item.role, Content(item.content), Nil)

(* assistant_output.                                                       *)
AssistantOutput(message) ==
  LET texts == CASE message.content = Nil -> <<>>
                 [] message.content # Nil ->
                      IF IsText(message.content) THEN <<message.content.text>>
                      ELSE LET ts == OfType(message.content.parts, "text")
                           IN  [i \in DOMAIN ts |-> ts[i].text]
      said  == SelectSeq(texts, LAMBDA t: t # <<>>)
  IN  [i \in DOMAIN said |-> TextPart("output_text", said[i])]
        \o IF message.refusal \in {Nil, <<>>} THEN <<>> ELSE <<Refusal(message.refusal)>>
=============================================================================
