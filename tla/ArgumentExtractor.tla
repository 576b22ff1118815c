------------------------- MODULE ArgumentExtractor -------------------------
(***************************************************************************)
(* baseTrafficShapingController.ExtractArgs and its helpers in            *)
(* src/core/hotspot/traffic_shaping.go: the hotspot key of a request,     *)
(* taken from its attachments, a header, its metadata or its arguments.   *)
(*                                                                         *)
(* A Go interface{} value is a record [kind, text].  A string is kind     *)
(* "string" and its text the sequence of its parts around the first "=":  *)
(* <<"k", "v">> is "k=v", <<"s">> a string without "=".  A numeric or    *)
(* boolean value carries its kind ("int", "float", "bool") and its        *)
(* digits as text.  A struct argument is [kind |-> "struct", fields]      *)
(* whose fields map a JSON path to the scalar it holds.  A Go map is a    *)
(* function on its keys; a nil map and an empty one read alike.           *)
(***************************************************************************)
EXTENDS Integers, Sequences

LOCAL INSTANCE SequencesExt

CONSTANTS
    ParamSource,  \* c.paramSource: "attachment", "header", "metadata" or "args"
    ParamKey,     \* c.paramKey (a string, "" when unset)
    ParamKind,    \* c.paramKind: "string" or a numeric kind such as "int"
    ParamIndex,   \* c.paramIndex
    Numerals      \* the strings strconv parses as a number of ParamKind

ASSUME /\ ParamSource \in {"attachment", "header", "metadata", "args"}
       /\ ParamIndex \in Int

Val(kind, text) == [kind |-> kind, text |-> text]

\* The nil interface{}, and the runtime panic of an index out of range.
Nil == Val("nil", << >>)
Panic == Val("panic", << >>)

\* transKind: a string is returned as it is; any other kind is parsed by
\* strconv, and a string that does not parse gives nil.
transKind(val, kind) ==
    IF kind = "string" THEN Val("string", << val >>)
    ELSE IF val \in Numerals THEN Val(kind, << val >>)
    ELSE Nil

\* extractAttachmentArgs: attachments[paramKey], which paramSource does not
\* gate; nil without attachments, with an empty key or a missing entry.
extractAttachmentArgs(ctx) ==
    IF ParamKey = "" \/ ParamKey \notin DOMAIN ctx.attachments THEN Nil
    ELSE ctx.attachments[ParamKey]

\* extractHeader: only for a Header rule; the first value of the header,
\* converted by transKind, unless it is missing or empty.
extractHeader(ctx) ==
    IF ParamSource # "header" \/ ParamKey \notin DOMAIN ctx.headers THEN Nil
    ELSE LET vals == ctx.headers[ParamKey] IN
         IF vals = << >> \/ vals[1] = "" THEN Nil ELSE transKind(vals[1], ParamKind)

\* extractMetadata: only for a Metadata rule; the value converted by transKind.
extractMetadata(ctx) ==
    IF ParamSource # "metadata" \/ ParamKey \notin DOMAIN ctx.metadata THEN Nil
    ELSE IF ctx.metadata[ParamKey] = "" THEN Nil
    ELSE transKind(ctx.metadata[ParamKey], ParamKind)

\* jsonparser's view of a struct field: a number is read back as a float64.
JsonValue(v) == IF v.kind \in {"int", "float"} THEN Val("float", v.text) ELSE v

\* The argument at c.paramIndex, negative indexes counting from the end.
ArgAtIndex(args) ==
    LET idx == IF ParamIndex < 0 THEN Len(args) + ParamIndex ELSE ParamIndex IN
    IF idx < 0 \/ idx >= Len(args) THEN Nil ELSE args[idx + 1]

\* Is the argument a string "k=v" whose k is paramKey?
IsKeyValue(x) == x.kind = "string" /\ Len(x.text) = 2 /\ x.text[1] = ParamKey

\* extractArgs: args[0] is read first (a panic when there are no
\* arguments).  A struct is resolved along paramKey; otherwise the first
\* "k=v" string with k = paramKey gives v; otherwise the index is used.
extractArgs(ctx) ==
    LET args == ctx.args IN
    IF args = << >> THEN Panic
    ELSE IF args[1].kind = "struct"
         THEN IF ParamKey \in DOMAIN args[1].fields
              THEN JsonValue(args[1].fields[ParamKey]) ELSE Nil
    ELSE LET i == SelectInSeq(args, IsKeyValue) IN
         IF i # 0 THEN Val("string", << args[i].text[2] >>) ELSE ArgAtIndex(args)

\* ExtractArgs: the first non-nil of the four extractions, in this order.
ExtractArgs(ctx) ==
    LET tried == << extractAttachmentArgs(ctx), extractHeader(ctx),
                    extractMetadata(ctx), extractArgs(ctx) >>
        i == SelectInSeq(tried, LAMBDA v : v # Nil)
    IN  IF i = 0 THEN Nil ELSE tried[i]

-----------------------------------------------------------------------------
(* The reference of spec section 4.6: attachments only for an Attachment  *)
(* rule with a key, then header, metadata, then the positional argument;  *)
(* "the extractor never throws", so no arguments is a miss.               *)
SpecExtract(ctx) ==
    LET tried == << IF ParamSource = "attachment" THEN extractAttachmentArgs(ctx) ELSE Nil,
                    extractHeader(ctx), extractMetadata(ctx),
                    IF ctx.args = << >> THEN Nil ELSE extractArgs(ctx) >>
        i == SelectInSeq(tried, LAMBDA v : v # Nil)
    IN  IF i = 0 THEN Nil ELSE tried[i]
=============================================================================
