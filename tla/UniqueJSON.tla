----------------------------- MODULE UniqueJSON -----------------------------
(***************************************************************************)
(* decodeUniqueJSON: validateUniqueJSON reads the tokens of a body one by  *)
(* one and rejects a repeated member name and a second value; then         *)
(* encoding/json decodes the body into a struct.                           *)
(*                                                                         *)
(* The decoder is external.  Token yields well-formed prefixes only, here  *)
(* any of them; where a body is malformed it returns a syntax error.       *)
(* Strings are members of Strings, other scalars one token.  Decode finds  *)
(* the struct field of a member name regardless of case (Fold), and lets   *)
(* the last of several values win.                                         *)
(***************************************************************************)
EXTENDS Naturals, Sequences, FiniteSets

CONSTANTS Strings,       \* string tokens, member names or values
          Fold(_),       \* the name of a struct field a member name stands for
          MaxTokens      \* length of the longest body

ASSUME TokensAssumption == MaxTokens \in Nat

VARIABLES tokens,        \* what Token has returned so far
          last,          \* what it returned last: "token", "EOF" or "error"
          rootOnly,      \* check the members of the root object only
          stack,         \* one frame for each open object or array
          consumed,      \* completed top-level values
          result         \* "reading", then what validateUniqueJSON returns

vars == <<tokens, last, rootOnly, stack, consumed, result>>

Open   == {"{", "["}
Close  == {"}", "]"}
Scalar == "number"
Tokens == Open \cup Close \cup Strings \cup {Scalar}

\* A string token has a Go type of its own, whatever its characters are.
ASSUME StringsAssumption == Strings \cap (Open \cup Close \cup {Scalar}) = {}

-----------------------------------------------------------------------------
(* The structure of a body, read off the token positions.                   *)

Count(doc, kind, i) == Cardinality({j \in 1..i : doc[j] \in kind})

\* How many containers are open after the first i tokens.
Depth(doc, i) == Count(doc, Open, i) - Count(doc, Close, i)

\* The opening token of the container that position i lies in directly.
Container(doc, i) ==
  {j \in 1..i - 1 : /\ doc[j] \in Open
                    /\ Depth(doc, j) = Depth(doc, i - 1)
                    /\ \A k \in j..i - 1 : Depth(doc, k) >= Depth(doc, j)}

\* The names and values that stand in the container before position i.
Siblings(doc, i) ==
  {j \in 1..i - 1 : doc[j] \notin Close /\ Container(doc, j) = Container(doc, i)}

InObject(doc, i) == \E j \in Container(doc, i) : doc[j] = "{"

\* In an object names and values alternate.
NamePosition(doc, i) == InObject(doc, i) /\ Cardinality(Siblings(doc, i)) % 2 = 0

IsName(doc, i) == doc[i] \in Strings /\ NamePosition(doc, i)

\* Whether Token may go on with t after the tokens of doc.
Follows(doc, t) ==
  LET i == Len(doc) + 1
  IN  CASE t = "}"                     -> NamePosition(doc, i)
        [] t = "]"                     -> Container(doc, i) # {} /\ ~ InObject(doc, i)
        [] t \in Strings               -> TRUE
        [] t \in Open \cup {Scalar}    -> ~ NamePosition(doc, i)

-----------------------------------------------------------------------------
(* validateUniqueJSON.                                                      *)

Frame(t) == [object |-> t = "{", expectKey |-> TRUE, keys |-> {}]

Top == stack[Len(stack)]

Pop(s) == SubSeq(s, 1, Len(s) - 1)

SetTop(frame) == stack' = [stack EXCEPT ![Len(stack)] = frame]

\* Mutant: a value at the root is not counted.
CompleteUncounted(s) ==
  /\ stack' = IF s # <<>> /\ s[Len(s)].object
              THEN [s EXCEPT ![Len(s)].expectKey = TRUE] ELSE s
  /\ UNCHANGED <<consumed, result>>

\* A value has been read in the innermost container of s: a member of an object
\* is complete, a value at the root ends the body.
Complete(s) ==
  /\ stack' = IF s # <<>> /\ s[Len(s)].object
              THEN [s EXCEPT ![Len(s)].expectKey = TRUE] ELSE s
  /\ consumed' = IF s = <<>> THEN consumed + 1 ELSE consumed
  /\ UNCHANGED result

Init == /\ tokens   = <<>>
        /\ last     = "token"
        /\ rootOnly \in BOOLEAN
        /\ stack    = <<>>
        /\ consumed = 0
        /\ result   = "reading"

\* The next token is returned; a second top-level value is not looked at.
Token(t) ==
  /\ result = "reading"
  /\ Len(tokens) < MaxTokens
  /\ Follows(tokens, t)
  /\ tokens' = Append(tokens, t)
  /\ UNCHANGED <<last, rootOnly>>

SecondValue ==
  /\ \E t \in Tokens : Token(t)
  /\ consumed > 0 /\ stack = <<>>
  /\ result' = "multiple values"
  /\ UNCHANGED <<stack, consumed>>

ReadOpen ==
  /\ \E t \in Open : Token(t) /\ stack' = Append(stack, Frame(t))
  /\ consumed = 0
  /\ UNCHANGED <<consumed, result>>

\* Mutant: a closed child does not complete the member of the enclosing object.
ReadCloseIncomplete ==
  /\ \E t \in Close : Token(t)
  /\ stack' = Pop(stack)
  /\ consumed' = IF Len(stack) = 1 THEN consumed + 1 ELSE consumed
  /\ UNCHANGED result

ReadClose ==
  /\ \E t \in Close : Token(t)
  /\ Complete(Pop(stack))

ReadScalar ==
  /\ Token(Scalar)
  /\ consumed = 0
  /\ Complete(stack)

\* Mutant: a frame remembers its last name only.
ReadNameForgetful ==
  \E t \in Strings :
    /\ Token(t)
    /\ stack # <<>> /\ Top.object /\ Top.expectKey
    /\ IF t \in Top.keys /\ (~ rootOnly \/ Len(stack) = 1)
       THEN result' = "duplicate" /\ UNCHANGED stack
       ELSE /\ SetTop([Top EXCEPT !.expectKey = FALSE, !.keys = {t}])
            /\ UNCHANGED result
    /\ UNCHANGED consumed

\* A member name: the keys of a frame are kept only where names are checked.
ReadName ==
  \E t \in Strings :
    /\ Token(t)
    /\ stack # <<>> /\ Top.object /\ Top.expectKey
    /\ LET checked == ~ rootOnly \/ Len(stack) = 1
       IN  IF checked /\ t \in Top.keys
           THEN result' = "duplicate" /\ UNCHANGED stack
           ELSE /\ SetTop([Top EXCEPT !.expectKey = FALSE,
                                     !.keys = IF checked THEN @ \cup {t} ELSE @])
                /\ UNCHANGED result
    /\ UNCHANGED consumed

\* A string that is no name: a member's value, an element, or the whole body.
ReadString ==
  /\ \E t \in Strings : Token(t)
  /\ consumed = 0
  /\ stack # <<>> => ~ (Top.object /\ Top.expectKey)
  /\ Complete(stack)

\* Token returns io.EOF: the body ends after the tokens that were read.
EndOfBody ==
  /\ result = "reading"
  /\ last' = "EOF"
  /\ result' = CASE stack # <<>>                  -> "cut off"
                 [] stack = <<>> /\ consumed = 0 -> "empty"
                 [] stack = <<>> /\ consumed # 0 -> "unique"
  /\ UNCHANGED <<tokens, rootOnly, stack, consumed>>

\* Token returns another error: what follows is no JSON.
SyntaxError ==
  /\ result = "reading"
  /\ last' = "error"
  /\ result' = "malformed"
  /\ UNCHANGED <<tokens, rootOnly, stack, consumed>>

Returned == result # "reading" /\ UNCHANGED vars

Next == \/ SecondValue \/ ReadOpen \/ ReadClose \/ ReadScalar
        \/ ReadName \/ ReadString
        \/ EndOfBody \/ SyntaxError \/ Returned

Spec == Init /\ [][Next]_vars

-----------------------------------------------------------------------------
(* Properties.                                                              *)

\* Two positions name the same member of the same object.
SameMember(doc, i, j) ==
  /\ i # j
  /\ IsName(doc, i) /\ IsName(doc, j)
  /\ Container(doc, i) = Container(doc, j)
  /\ doc[i] = doc[j]

Checked(doc, i) == rootOnly => Depth(doc, i) = 1

\* The frames are the open containers: their kinds, and whether the innermost
\* object waits for a name (json.go:40-45).
FramesAreContainers ==
  (result = "reading" /\ consumed = 0) =>
    /\ Len(stack) = Depth(tokens, Len(tokens))
    /\ \A d \in 1..Len(stack) :
         \E j \in 1..Len(tokens) :
           /\ Depth(tokens, j) = d
           /\ \A k \in j..Len(tokens) : Depth(tokens, k) >= d
           /\ stack[d].object <=> tokens[j] = "{"
    /\ stack # <<>> /\ Top.object =>
         (Top.expectKey <=> NamePosition(tokens, Len(tokens) + 1))

\* The first n tokens of doc are one whole value.
OneValue(doc, n) == /\ n > 0 /\ Depth(doc, n) = 0
                    /\ \A i \in 1..n - 1 : Depth(doc, i) > 0

\* A body that has been read to its end is accepted exactly when it is one whole
\* value, and no checked object of any body repeats a member name but at the token
\* that gets it refused.  Every other refusal gives a reason that the body has:
\* nothing in it, a container left open, a second value, or the decoder's own error
\* (json.go:28-36, 50-64, 92-95).
AcceptsExactlyUnique ==
  LET n == Len(tokens)
      repeated == {i \in 1..n : Checked(tokens, i) /\ \E j \in 1..i - 1 : SameMember(tokens, i, j)}
  IN  /\ result = "unique" <=> last = "EOF" /\ OneValue(tokens, n)
      /\ repeated = IF result = "duplicate" THEN {n} ELSE {}
      /\ result = "empty"           => n = 0
      /\ result = "cut off"         => n > 0 /\ Depth(tokens, n) > 0
      /\ result = "multiple values" => OneValue(tokens, n - 1)
      /\ result = "malformed"       => last = "error"

\* json.go:15-19 promises that a repeated field is ambiguous and that the body
\* is rejected before any of the conflicting values is used.  A name that
\* differs in case only passes the scan, and Decode assigns the same struct
\* field from both members.
NoFieldDecodedTwice ==
  (result = "unique" /\ ~ rootOnly) =>
    \A i, j \in 1..Len(tokens) :
      (/\ i # j
       /\ IsName(tokens, i) /\ IsName(tokens, j)
       /\ Container(tokens, i) = Container(tokens, j))
        => Fold(tokens[i]) # Fold(tokens[j])
=============================================================================
