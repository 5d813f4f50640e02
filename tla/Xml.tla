-------------------------------- MODULE Xml ---------------------------------
(***************************************************************************)
(* The XML parser of the SDK (compiler/sdk/lib/app/parsing/xml.h).  It     *)
(* fills an array of tokens and stops where the text or the array ends; it *)
(* is then called again, with more text, or with a larger or empty array,  *)
(* and goes on behind the last construct it completed (xml.h:24-30).       *)
(*                                                                         *)
(* A character stands for its class: "a" for those that begin a name, "1"  *)
(* for those that go on with one, "'" for both quotes.  The words DOCTYPE  *)
(* and CDATA[ are one character, "D" and "C".                              *)
(***************************************************************************)
EXTENDS Integers, SequencesExt

CONSTANTS Documents,    \* sequences of characters
          EntityMax,    \* ENTITY_MAXLEN
          Chunks,       \* characters that arrive at a time
          Capacities    \* of the array of tokens at first

ASSUME XmlAssumption == EntityMax \in Nat \ {0} /\ Chunks \subseteq Nat \ {0}

VARIABLES document,
          client,    \* "stream", or "svg", which has all text at the first call
          arrived,   \* characters that arrived so far
          dropped,   \* characters that are no longer in the buffer
          capacity,  \* num_tokens
          parser,    \* [pos, level], the tokens since they were last used, and
                     \* how many tokens behind the array it wrote
          used,      \* tokens used before, at their place in the document
          outcome    \* of the last call

xvars == <<document, client, arrived, dropped, capacity, parser, used, outcome>>

NewParser == [pos |-> 1, level |-> 0, tokens |-> <<>>, past |-> 0, err |-> "success"]

XmlInit ==
  /\ document \in Documents /\ client \in {"stream", "svg"} /\ capacity \in Capacities
  /\ arrived = IF client = "svg" THEN Len(document) ELSE 0
  /\ dropped = 0 /\ parser = NewParser /\ used = <<>> /\ outcome = "none"

-----------------------------------------------------------------------------
(* Searching the text t, from a position up to another one *)

Earliest(places, otherwise) == IF places = {} THEN otherwise ELSE Min(places)

EndOf(t) == Len(t) + 1
FindChr(t, from, to, c) == Earliest({i \in from..(to - 1) : t[i] = c}, to)
StartsWith(t, from, prefix) ==
  from + Len(prefix) <= EndOf(t) /\ SubSeq(t, from, from + Len(prefix) - 1) = prefix
FindStr(t, from, needle) == Earliest({i \in from..Len(t) : StartsWith(t, i, needle)}, EndOf(t))
LTrim(t, from, to) == Earliest({i \in from..(to - 1) : t[i] # " "}, to)
RTrim(t, from, to) == Max({from} \cup {i \in (from + 1)..to : t[i - 1] # " "})
NotAlnum(t, from, to) == Earliest({i \in from..(to - 1) : t[i] \notin {"a", "D", "C", "1", "-"}}, to)
IsAlpha(c) == c \in {"a", "D", "C"}

-----------------------------------------------------------------------------
(* The state of the parser, s *)

PushToken(s, type, from, to) ==
  [s EXCEPT !.tokens = Append(@, [type |-> type, from |-> from, to |-> to, size |-> 0]),
            !.level = @ + (IF type = "start" THEN 1 ELSE IF type = "end" THEN -1 ELSE 0)]

\* Tokens that do not fit are counted, not stored.
SetPos(s, p, cap) ==
  [s EXCEPT !.pos = p, !.err = IF Len(s.tokens) <= cap THEN "success" ELSE "full"]

Stop(s, err) == [s EXCEPT !.err = err]

ParseCharacters(s, t, to, cap) ==
  LET amp == FindChr(t, s.pos, to, "&")
      text == IF amp = s.pos THEN s ELSE PushToken(s, "text", s.pos, amp)
      limit == Min({amp + EntityMax, to})
      colon == FindChr(t, amp, limit, ";")
  IN  IF amp = to THEN SetPos(text, amp, cap)
      ELSE IF colon = limit THEN Stop(text, IF limit = to THEN "dry" ELSE "invalid")
      ELSE SetPos(PushToken(text, "text", amp, colon + 1), colon + 1, cap)

RECURSIVE ParseAttrValue(_, _, _, _)
ParseAttrValue(s, t, to, cap) ==
  LET after(r) == IF r.err # "success" THEN r ELSE ParseAttrValue(r, t, to, cap) IN
  IF s.pos = to THEN Stop(s, "success") ELSE after(ParseCharacters(s, t, to, cap))

\* The attributes from `name` on of the tag whose token has the number tag.
\* Their number is written into that token whether the array holds it or not.
RECURSIVE Attributes(_, _, _, _, _)
Attributes(s, t, name, tag, cap) ==
  LET end == EndOf(t)
      eq == FindChr(t, name, end, "=")
      key == PushToken(s, "cdata", name, RTrim(t, name, eq))
      quot == LTrim(t, eq + 1, end)
      close == FindChr(t, quot + 1, end, "'")
      after(value) == IF value.err # "success" THEN value
                      ELSE Attributes(value, t, LTrim(t, close + 1, end), tag, cap)
      sized == [s EXCEPT !.tokens[tag].size = Len(s.tokens) - tag,
                         !.past = Max({@, tag - cap})]
  IN  IF name = end \/ ~IsAlpha(t[name]) THEN SetPos(sized, name, cap)
      ELSE IF eq = end \/ quot = end THEN Stop(s, "dry")
      ELSE IF t[quot] # "'" THEN Stop(s, "invalid")
      ELSE IF close = end THEN Stop(s, "dry")
      ELSE after(ParseAttrValue([key EXCEPT !.pos = quot + 1], t, close, cap))

ParseAttributes(s, t, cap) == Attributes(s, t, LTrim(t, s.pos, EndOf(t)), Len(s.tokens), cap)

-----------------------------------------------------------------------------
(* The constructs *)

\* One that goes up to the first `closing` behind `opening`.
Enclosed(s, t, type, opening, closing, cap) ==
  LET from == s.pos + Len(opening)
      to == FindStr(t, from, closing)
  IN  IF EndOf(t) < from THEN Stop(s, "dry")
      ELSE IF ~StartsWith(t, s.pos, opening) THEN Stop(s, "invalid")
      ELSE IF to = EndOf(t) THEN Stop(s, "dry")
      ELSE SetPos(PushToken(s, type, from, to), to + Len(closing), cap)

ParseComment(s, t, cap) == Enclosed(s, t, "comment", <<"<", "!", "-", "-">>, <<"-", "-", ">">>, cap)
ParseCdata(s, t, cap) == Enclosed(s, t, "cdata", <<"<", "!", "[", "C">>, <<"]", "]", ">">>, cap)

\* Brackets nest, and count outside quotes only.
Quoted(t, from, i) == Cardinality({k \in from..(i - 1) : t[k] = "'"}) % 2 = 1
Subset(t, from, i) ==
  FoldLeft(LAMBDA n, k : IF Quoted(t, from, k) THEN n
                         ELSE IF t[k] = "[" THEN n + 1
                         ELSE IF t[k] = "]" /\ n > 0 THEN n - 1 ELSE n,
           0, [k \in 1..(i - from) |-> from + k - 1])

ParseDoctype(s, t, cap) ==
  LET from == s.pos + 3
      gt == Earliest({i \in from..Len(t) :
                        t[i] = ">" /\ ~Quoted(t, from, i) /\ Subset(t, from, i) = 0}, EndOf(t))
  IN  IF ~StartsWith(t, s.pos, <<"<", "!", "D">>) \/ gt = EndOf(t) THEN Stop(s, "dry")
      ELSE SetPos(PushToken(s, "doctype", from, gt), gt + 1, cap)

\* An instruction, or a start tag: a name, and attributes behind it.
Named(s, t, type, name, cap) ==
  LET space == NotAlnum(t, name, EndOf(t)) IN
  IF space = EndOf(t) THEN Stop(s, "dry")
  ELSE ParseAttributes([PushToken(s, type, name, space) EXCEPT !.pos = space], t, cap)

ParseInstruction(s, t, cap) ==
  LET after(r) ==
        IF r.err # "success" THEN r
        ELSE IF EndOf(t) - r.pos < 2 THEN Stop(r, "dry")
        ELSE IF ~StartsWith(t, r.pos, <<"?", ">">>) THEN Stop(r, "invalid")
        ELSE SetPos(r, r.pos + 2, cap)
  IN  after(Named(s, t, "instruction", s.pos + 2, cap))

ParseStart(s, t, cap) ==
  LET name == s.pos + 1
      empty(r) == r.pos # EndOf(t) /\ t[r.pos] = "/"
      closed(r) == IF empty(r) THEN PushToken([r EXCEPT !.pos = @ + 1], "end", name, NotAlnum(t, name, EndOf(t))) ELSE r
      after(r) == IF r.pos = EndOf(t) THEN Stop(r, "dry")
                  ELSE IF t[r.pos] # ">" THEN Stop(r, "invalid") ELSE SetPos(r, r.pos + 1, cap)
      named(r) == IF r.err # "success" THEN r ELSE after(closed(r))
  IN  IF ~IsAlpha(t[name]) THEN Stop(s, "invalid") ELSE named(Named(s, t, "start", name, cap))

ParseEnd(s, t, cap) ==
  LET from == s.pos + 2
      gt == FindChr(t, from, EndOf(t), ">")
      space == NotAlnum(t, from, gt)
  IN  IF ~IsAlpha(t[from]) THEN Stop(s, "invalid")
      ELSE IF gt = EndOf(t) THEN Stop(s, "dry")
      ELSE IF LTrim(t, space, gt) # gt THEN Stop(s, "invalid")
      ELSE SetPos(PushToken(s, "end", from, space), gt + 1, cap)

-----------------------------------------------------------------------------
(* sxml_parse: what was completed stays, whatever stops the parser, and so *)
(* does what was written behind the array.                                 *)

KeptAnyway(s, r) == r
Kept(s, r) == IF r.err = "success" THEN r ELSE [Stop(s, r.err) EXCEPT !.past = r.past]

Construct(s, t, cap, other) ==
  IF EndOf(t) - s.pos < 3 THEN Stop(s, "dry")
  ELSE CASE t[s.pos + 1] = "?" -> ParseInstruction(s, t, cap)
         [] t[s.pos + 1] = "/" /\ other = "cdata" -> ParseEnd(s, t, cap)
         [] t[s.pos + 1] = "!" /\ t[s.pos + 2] = "-" -> ParseComment(s, t, cap)
         [] t[s.pos + 1] = "!" /\ t[s.pos + 2] # "-" ->
              IF other = "cdata" THEN ParseCdata(s, t, cap) ELSE ParseDoctype(s, t, cap)
         [] OTHER -> ParseStart(s, t, cap)

\* In front of the root element: constructs, with space between them.  A root
\* that is empty, <a/>, is none: the parser waits for another one.
PrologTurn(s, t, cap) ==
  LET lt == LTrim(t, s.pos, EndOf(t))
      at == SetPos(s, lt, cap)
  IN  Kept(at, IF EndOf(t) - lt >= 3 /\ t[lt] # "<" THEN Stop(at, "invalid")
               ELSE Construct(at, t, cap, "doctype"))

\* Inside it: characters up to the next construct, or that construct.
ContentTurn(s, t, cap) ==
  LET lt == FindChr(t, s.pos, EndOf(t), "<") IN
  Kept(s, IF s.pos # lt THEN ParseCharacters(s, t, lt, cap) ELSE Construct(s, t, cap, "cdata"))

RECURSIVE Content(_, _, _)
Content(s, t, cap) ==
  LET after(r) == IF r.err # "success" THEN r ELSE Content(r, t, cap) IN
  IF s.level = 0 THEN s ELSE after(ContentTurn(s, t, cap))

RECURSIVE Prolog(_, _, _)
Prolog(s, t, cap) ==
  LET after(r) == IF r.err # "success" THEN r ELSE Prolog(r, t, cap) IN
  IF s.level > 0 THEN Content(s, t, cap) ELSE after(PrologTurn(s, t, cap))

SxmlParse(s, t, cap) == Prolog([s EXCEPT !.err = "success"], t, cap)

-----------------------------------------------------------------------------
(* Calling it *)

Buffer == SubSeq(document, dropped + 1, arrived)

Parse ==
  /\ outcome = "none"
  /\ parser' = SxmlParse(parser, Buffer, capacity) /\ outcome' = parser'.err
  /\ UNCHANGED <<document, client, arrived, dropped, capacity, used>>

AtPlace(token) == [token EXCEPT !.from = @ + dropped, !.to = @ + dropped]

\* The tokens are used, and the array is empty again.
UseTokens ==
  /\ used' = used \o [i \in DOMAIN parser.tokens |-> AtPlace(parser.tokens[i])]
  /\ parser' = [parser EXCEPT !.tokens = <<>>, !.pos = 1] /\ dropped' = dropped + parser.pos - 1

Refill ==
  /\ client = "stream" /\ outcome = "dry" /\ arrived < Len(document)
  /\ \E n \in Chunks : arrived' = Min({arrived + n, Len(document)})
  /\ UseTokens /\ outcome' = "none" /\ UNCHANGED <<document, client, capacity>>

\* An array that is too small for one construct has to grow.
MakeRoom ==
  /\ client = "stream" /\ outcome = "full" /\ UseTokens /\ outcome' = "none"
  /\ capacity' = IF parser.tokens = <<>> THEN 2 * capacity ELSE capacity
  /\ UNCHANGED <<document, client, arrived>>

\* draw_svg_buff: all over again, up to a token for every character and one.
MaxTokens == Len(document) + 1

StartAgain ==
  /\ client = "svg" /\ outcome = "full" /\ capacity < MaxTokens
  /\ capacity' = Min({2 * capacity, MaxTokens}) /\ outcome' = "none"
  /\ parser' = [NewParser EXCEPT !.past = parser.past]
  /\ UNCHANGED <<document, client, arrived, dropped, used>>

XmlNext == Parse \/ Refill \/ MakeRoom \/ StartAgain

-----------------------------------------------------------------------------
(* Properties *)

AllTokens == used \o [i \in DOMAIN parser.tokens |-> AtPlace(parser.tokens[i])]

\* Text that arrives in pieces becomes several tokens, one behind the other.
Pieces(tokens) == {i \in 2..Len(tokens) : /\ tokens[i].type = "text" /\ tokens[i - 1].type = "text"
                                          /\ tokens[i].from = tokens[i - 1].to}
JoinedTokens(tokens) ==
  LET firsts == {i \in DOMAIN tokens : i \notin Pieces(tokens)}
      last(i) == Max({k \in i..Len(tokens) : (i + 1)..k \subseteq Pieces(tokens)})
  IN  {[tokens[i] EXCEPT !.to = tokens[last(i)].to] : i \in firsts}

AtOnce == SxmlParse(NewParser, document, MaxTokens)

\* However the text arrives and however small the array is, the parser ends as
\* it does with all of both (xml.h:27: reentrant), and the tokens, joined
\* where text was cut, are the same: none is lost, doubled or out of place.
\* This is as long as it did not write behind the array, on the heap of its
\* caller (svg.h:1010): the size of a tag that is the first not to fit, whose
\* attributes are all empty, lands one token behind it (xml.h:356).
ParsedAsAtOnce ==
  /\ parser.past = 0 =>
       /\ \E whole \in {AtOnce} :
            /\ outcome \notin {"none", "full"} /\ (arrived = Len(document) \/ outcome # "dry") =>
                 outcome = whole.err
            /\ outcome = "success" => JoinedTokens(AllTokens) = JoinedTokens(whole.tokens)
       /\ outcome # "success" \/ parser.level = 0
       /\ outcome = "full" /\ client = "svg" => capacity < MaxTokens
  /\ parser.past <= 1
=============================================================================
