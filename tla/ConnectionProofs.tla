-------------------------- MODULE ConnectionProofs --------------------------
(***************************************************************************)
(* What the client's handshake decides, and what the generated unions keep *)
(* of a document, for every set of protocol versions and however often a   *)
(* document is passed on.                                                  *)
(***************************************************************************)
EXTENDS Connection, TLAPS, WellFoundedInduction

-----------------------------------------------------------------------------
(* The handshake.                                                          *)

\* What Start knows before its end: there is no process before Launch, one
\* that runs while the call is under way, and no response before the end.
\* A document is only under way on a connection that is open.
Handshake ==
    /\ phase \in {"new", "calling", "open", "failed", "closed"}
    /\ process \in {"none", "running", "stopped"}
    /\ reply \in Replies \cup {<<>>}
    /\ resume \in {"none", "absent", "object"}
    /\ phase = "new" => process = "none" /\ reply = <<>> /\ resume = "none"
    /\ phase = "calling" => process = "running" /\ resume = "none"
    /\ stage # "idle" => phase = "open"

\* The capability of a reply, once normalized, fits its type.
LEMMA NormalizedFits ==
    ASSUME NEW r \in Replies
    PROVE  /\ Normalized(r.resume) \in {"absent", "object"}
           /\ Normalized(r.resume) = "object" <=> r.resume \in {"true", "object"}
  BY DEF Replies, Normalized

\* The steps of the handshake, and what the others leave of it alone.
LEMMA HandshakeStep ==
    ASSUME Handshake, [Next]_vars
    PROVE  Handshake'
  <1> USE DEF Handshake, connVars, docVars
  <1>1. CASE Launch
    BY <1>1 DEF Launch
  <1>2. CASE InitializeFails
    BY <1>2 DEF InitializeFails
  <1>3. CASE FinishStart
    <2>1. reply \in Replies
      BY <1>3 DEF FinishStart
    <2>2. Normalized(reply.resume) \in {"absent", "object"}
      BY <2>1, NormalizedFits
    <2> QED
      BY <1>3, <2>1, <2>2 DEF FinishStart
  <1>4. CASE Close
    BY <1>4 DEF Close
  <1>5. ASSUME NEW r \in Replies, AgentReplies(r)
        PROVE  Handshake'
    BY <1>5 DEF AgentReplies
  <1>6. ASSUME phase = "open", NEW u, NEW d, Send(u, d)
        PROVE  Handshake'
    BY <1>6 DEF Send
  <1>7. CASE Unsupported
    BY <1>7 DEF Unsupported
  <1>8. CASE Receive
    BY <1>8 DEF Receive
  <1>9. CASE PassOn
    BY <1>9 DEF PassOn
  <1>10. CASE UNCHANGED vars
    BY <1>10 DEF vars
  <1> QED
    BY <1>1, <1>2, <1>3, <1>4, <1>5, <1>6, <1>7, <1>8, <1>9, <1>10 DEF Next

\* The states of the handshake, for every set of versions.
LEMMA HandshakeInvariance == Spec => []Handshake
  <1>1. Init => Handshake
    BY DEF Init, Handshake
  <1>2. Handshake /\ [Next]_vars => Handshake'
    BY HandshakeStep
  <1> QED
    BY <1>1, <1>2, PTL DEF Spec

\* What a step that ends Start leaves.
LEMMA StartEnds ==
    ASSUME Handshake, [Next]_vars, phase \in {"new", "calling"},
           phase' \notin {"new", "calling"}
    PROVE  /\ phase' = "open" <=> process' = "running"
           /\ phase' = "open" <=> resume' # "none"
           /\ reply # <<>> /\ reply.version \in {0, ProtocolVersion} =>
                 /\ phase' = "open"
                 /\ resume' = "object" <=> reply.resume \in {"true", "object"}
  <1> USE DEF Handshake, connVars, docVars
  <1>1. CASE Launch
    BY <1>1 DEF Launch
  <1>2. CASE InitializeFails
    BY <1>2 DEF InitializeFails
  <1>3. CASE FinishStart
    <2>1. reply \in Replies
      BY <1>3 DEF FinishStart
    <2>2. /\ Normalized(reply.resume) \in {"absent", "object"}
          /\ Normalized(reply.resume) = "object" <=> reply.resume \in {"true", "object"}
      BY <2>1, NormalizedFits
    <2>3. Negotiated(reply) <=> reply.version \in {0, ProtocolVersion}
      BY <2>1, <2>2 DEF Negotiated, Replies, ProtocolVersion
    <2> QED
      BY <1>3, <2>1, <2>2, <2>3 DEF FinishStart
  <1>4. CASE Close
    BY <1>4 DEF Close
  <1>5. ASSUME NEW r \in Replies, AgentReplies(r)
        PROVE  FALSE
    BY <1>5 DEF AgentReplies
  <1>6. CASE Unsupported \/ Receive \/ PassOn \/ UNCHANGED vars
    BY <1>6 DEF Unsupported, Receive, PassOn, vars
  <1> QED
    BY <1>1, <1>2, <1>3, <1>4, <1>5, <1>6 DEF Next

\* Start ends with an open connection to an agent that runs, or with an error
\* and no process, and a reply with the client's version is always accepted,
\* with the capabilities the agent has in whichever form it writes them.
THEOREM StartEndsOneWay == Spec => StartDecides
  <1>1. Handshake /\ [Next]_vars =>
          [LET ends == phase \in {"new", "calling"} /\ phase' \notin {"new", "calling"}
               agreed == reply # <<>> /\ reply.version \in {0, ProtocolVersion}
           IN ends => /\ phase' = "open" <=> process' = "running"
                      /\ phase' = "open" <=> resume' # "none"
                      /\ agreed => /\ phase' = "open"
                                   /\ resume' = "object" <=> reply.resume \in {"true", "object"}]_vars
    BY StartEnds
  <1> QED
    BY <1>1, HandshakeInvariance, PTL DEF Spec, StartDecides

-----------------------------------------------------------------------------
(* Choosing a variant.                                                     *)

\* What Min of a set of variants is.
LEMMA LeastOf ==
    ASSUME NEW S \in SUBSET Nat, S # {}
    PROVE  Min(S) \in S /\ \A x \in S : Min(S) <= x
  <1>1. \E x \in S : \A y \in S : ~(<<y, x>> \in OpToRel(<, Nat))
    BY NatLessThanWellFounded, WFMin, Zenon
  <1>2. \E x \in S : \A y \in S : x <= y
    <2>1. PICK x \in S : \A y \in S : ~(<<y, x>> \in OpToRel(<, Nat))
      BY <1>1, Zenon
    <2>2. \A y \in S : ~(y < x)
      BY <2>1 DEF OpToRel
    <2> QED
      BY <2>2
  <1> QED
    BY <1>2 DEF Min

\* A set that an element bounds from below has it as its least.
LEMMA LeastIs ==
    ASSUME NEW S \in SUBSET Nat, NEW m \in S, \A x \in S : m <= x
    PROVE  Min(S) = m
  <1>1. Min(S) \in S /\ Min(S) <= m
    BY LeastOf
  <1>2. Min(S) \in Nat /\ m \in Nat /\ m <= Min(S)
    BY <1>1
  <1> QED
    BY <1>1, <1>2

\* The variant chosen, if any, is one the document fits.
LEMMA PickFits ==
    ASSUME NEW u, NEW d, Len(u.types) \in Nat
    PROVE  /\ Pick(u, d) \in 0..Len(u.types)
           /\ Pick(u, d) # 0 => Fits(u, Pick(u, d), d)
  <1> DEFINE n == 1..Len(u.types)
             tagged == {i \in n : u.cases[i] = d.tag}
             shaped == {i \in n : Shaped(u, i, d)}
             fitting == {i \in n : Fits(u, i, d)}
             picked == IF d.json # "object" THEN {}
                       ELSE IF tagged # {} THEN tagged ELSE shaped
  <1>1. Pick(u, d) = IF picked # {} THEN IF Min(picked) \in fitting THEN Min(picked) ELSE 0
                     ELSE IF fitting # {} THEN Min(fitting) ELSE 0
    BY DEF Pick
  <1>2. fitting # {} => Min(fitting) \in fitting
    BY LeastOf, SMTT(30)
  <1>3. \A i \in fitting : i \in 1..Len(u.types)
    OBVIOUS
  <1>4. \A i \in fitting : Fits(u, i, d)
    OBVIOUS
  <1>5. Pick(u, d) = 0 \/ Pick(u, d) \in fitting
    <2> HIDE DEF fitting, picked
    <2> QED
      BY <1>1, <1>2
  <1> HIDE DEF fitting
  <1>6. Pick(u, d) \in 0..Len(u.types)
    BY <1>3, <1>5
  <1>7. Pick(u, d) # 0 => Fits(u, Pick(u, d), d)
    BY <1>4, <1>5, Zenon
  <1> QED
    BY <1>6, <1>7

\* The first pass: a tag that is one variant's own is that variant or nothing.
LEMMA PickByTag ==
    ASSUME NEW u, NEW d, Len(u.types) \in Nat, d.json = "object",
           NEW i \in 1..Len(u.types), u.cases[i] = d.tag,
           \A j \in 1..Len(u.types) : u.cases[j] = d.tag => j = i
    PROVE  Pick(u, d) = IF Fits(u, i, d) THEN i ELSE 0
  <1> DEFINE n == 1..Len(u.types)
             tagged == {j \in n : u.cases[j] = d.tag}
             fitting == {j \in n : Fits(u, j, d)}
  <1>1. tagged = {i}
    OBVIOUS
  <1>2. Min({i}) = i
    BY LeastIs
  <1>3. Pick(u, d) = IF i \in fitting THEN i ELSE 0
    BY <1>1, <1>2 DEF Pick
  <1> QED
    BY <1>3

\* The second pass, for a tag that is no variant's: the first variant all of
\* whose keys are there, or nothing.
LEMMA PickByShape ==
    ASSUME NEW u, NEW d, Len(u.types) \in Nat, d.json = "object",
           \A j \in 1..Len(u.types) : u.cases[j] # d.tag,
           NEW i \in 1..Len(u.types), Shaped(u, i, d),
           \A j \in 1..Len(u.types) : Shaped(u, j, d) => i <= j
    PROVE  Pick(u, d) = IF Fits(u, i, d) THEN i ELSE 0
  <1> DEFINE n == 1..Len(u.types)
             tagged == {j \in n : u.cases[j] = d.tag}
             shaped == {j \in n : Shaped(u, j, d)}
             fitting == {j \in n : Fits(u, j, d)}
  <1>1. tagged = {} /\ shaped # {}
    OBVIOUS
  <1>2. Min(shaped) = i
    BY LeastIs
  <1>3. Pick(u, d) = IF Min(shaped) \in fitting THEN Min(shaped) ELSE 0
    BY <1>1 DEF Pick
  <1> QED
    BY <1>2, <1>3

\* The third pass: the first variant that fits.
LEMMA PickByFit ==
    ASSUME NEW u, NEW d, Len(u.types) \in Nat,
           d.json = "object" => \A j \in 1..Len(u.types) :
                                    u.cases[j] # d.tag /\ ~Shaped(u, j, d),
           NEW i \in 1..Len(u.types), Fits(u, i, d),
           \A j \in 1..Len(u.types) : Fits(u, j, d) => i <= j
    PROVE  Pick(u, d) = i
  <1> DEFINE n == 1..Len(u.types)
             tagged == {j \in n : u.cases[j] = d.tag}
             shaped == {j \in n : Shaped(u, j, d)}
             fitting == {j \in n : Fits(u, j, d)}
             picked == IF d.json # "object" THEN {}
                       ELSE IF tagged # {} THEN tagged ELSE shaped
  <1>1. picked = {}
    OBVIOUS
  <1>2. fitting # {} /\ Min(fitting) = i
    BY LeastIs
  <1>3. Pick(u, d) = IF picked # {} THEN IF Min(picked) \in fitting THEN Min(picked) ELSE 0
                     ELSE IF fitting # {} THEN Min(fitting) ELSE 0
    BY DEF Pick
  <1> HIDE DEF picked, fitting
  <1> QED
    BY <1>1, <1>2, <1>3

-----------------------------------------------------------------------------
(* Kinds.                                                                  *)

GoTypes == DOMAIN Accepted

\* What is read from a kind a Go type takes is written as a kind that the
\* type takes too, and reads as it is.  Only null into an error has no form.
LEMMA HeldAgain ==
    ASSUME NEW go \in GoTypes, NEW json \in JsonKinds, Accepts(go, json),
           go = "error" => json # "null"
    PROVE  /\ Held(go, json) \in JsonKinds
           /\ Accepts(go, Held(go, json))
           /\ Held(go, Held(go, json)) = Held(go, json)
           /\ Held(go, json) = "null" => json = "null" \/ go \in {"id", "empty"}
  BY DEF GoTypes, Accepted, JsonKinds, Accepts, Held, FromNull

\* A kind is lost in reading only as null or as a number with a fraction.
LEMMA HeldKeeps ==
    ASSUME NEW go, go \notin {"id", "empty"}, NEW json
    PROVE  json \in {Held(go, json), "null", "whole"}
  BY DEF Held

\* The keys and values of two functions side by side.
LEMMA Beside ==
    ASSUME NEW f, NEW g
    PROVE  /\ DOMAIN (f @@ g) = DOMAIN f \cup DOMAIN g
           /\ \A k \in DOMAIN f : (f @@ g)[k] = f[k]
           /\ \A k \in DOMAIN g : k \notin DOMAIN f => (f @@ g)[k] = g[k]
  BY DEF @@

-----------------------------------------------------------------------------
(* What the tables of the unions have in common.                           *)

Tagged(u, i) == u.cases[i] \notin {Kept, NoTag}

\* A variant's keys are of known types and all its own; a key that it must
\* have is not left out of what is written and, under a tag, not of a type
\* that writes another kind than it reads.
Sound(type, tag, drops) ==
    /\ tag \notin {Absent, Unknown, IllTyped}
    /\ tag \notin {Kept, NoTag} => type.go = "struct"
    /\ \A k \in DOMAIN type.always :
          /\ k \notin DOMAIN type.optional
          /\ k \notin drops
          /\ type.always[k] \in GoTypes \ {"empty"}
          /\ tag \notin {Kept, NoTag} => type.always[k] \notin {"id", "error"}
    /\ \A k \in DOMAIN type.optional :
          type.optional[k] \in GoTypes \ {"id", "empty", "error"}

\* The encoder writes the tag the decoder switches on.
Variant(u, i) ==
    /\ u.tags[i] = u.cases[i]
    /\ Sound(u.types[i], u.cases[i], u.drops)

\* No two variants have the same tag.
Distinct(u) ==
    \A i, j \in 1..Len(u.types) :
        Tagged(u, i) /\ u.cases[i] = u.cases[j] => i = j

Table(u) ==
    /\ Len(u.types) \in Nat /\ Len(u.cases) = Len(u.types)
    /\ \A i \in 1..Len(u.types) : Variant(u, i)
    /\ Distinct(u)

\* The keys of a variant.
LEMMA FieldKeys ==
    ASSUME NEW type
    PROVE  DOMAIN Fields(type) = DOMAIN type.always \cup DOMAIN type.optional
  BY Beside DEF Fields

\* The types of a sound variant's keys.
LEMMA FieldTypes ==
    ASSUME NEW type, NEW tag, NEW drops, Sound(type, tag, drops)
    PROVE  /\ DOMAIN Fields(type) = DOMAIN type.always \cup DOMAIN type.optional
           /\ \A k \in DOMAIN Fields(type) : Fields(type)[k] \in GoTypes \ {"empty"}
           /\ \A k \in DOMAIN type.always : Fields(type)[k] = type.always[k]
           /\ \A k \in DOMAIN type.optional : Fields(type)[k] \notin {"id", "error"}
  <1>1. /\ DOMAIN Fields(type) = DOMAIN type.always \cup DOMAIN type.optional
        /\ \A k \in DOMAIN type.always : Fields(type)[k] = type.always[k]
        /\ \A k \in DOMAIN type.optional :
              k \notin DOMAIN type.always => Fields(type)[k] = type.optional[k]
    BY Beside DEF Fields
  <1>2. \A k \in DOMAIN type.optional : k \notin DOMAIN type.always
    BY DEF Sound
  <1> QED
    BY <1>1, <1>2 DEF Sound

-----------------------------------------------------------------------------
(* Reading and writing one variant.                                        *)

\* A document, as a record; one that is no object has no tag and no keys.
Document(d) ==
    /\ d = [json |-> d.json, tag |-> d.tag, body |-> d.body]
    /\ d.json \in JsonKinds
    /\ \A k \in DOMAIN d.body : d.body[k] \in JsonKinds
    /\ d.json # "object" => d.tag = Absent /\ DOMAIN d.body = {}

\* A document as variant i writes it: all its keys are the variant's, the
\* required ones are there, and each has a kind that reads as it is.
Canonical(u, i, e) ==
    LET type == u.types[i] IN
    /\ e = [json |-> "object", tag |-> e.tag, body |-> e.body]
    /\ e.body = [k \in DOMAIN e.body |-> e.body[k]]
    /\ Tagged(u, i) => e.tag = u.cases[i]
    /\ u.cases[i] = NoTag => e.tag = Absent
    /\ u.cases[i] = Kept => e.tag \notin {Absent, IllTyped}
    /\ DOMAIN type.always \subseteq DOMAIN e.body
    /\ \A k \in DOMAIN e.body :
          /\ k \in DOMAIN Fields(type) /\ k \notin u.drops
          /\ e.body[k] \in JsonKinds
          /\ Accepts(Fields(type)[k], e.body[k])
          /\ Held(Fields(type)[k], e.body[k]) = e.body[k]
          /\ e.body[k] = "null" => k \notin DOMAIN type.optional /\ Fields(type)[k] # "error"

\* What Read returns.
LEMMA ReadValue ==
    ASSUME NEW u, NEW i, NEW d
    PROVE  LET type == u.types[i]
               v == Read(u, i, d)
           IN /\ v.variant = i /\ v.tag = d.tag /\ v.json = Held(type.go, d.json)
              /\ \A k : k \in DOMAIN v.set <=>
                    /\ k \in DOMAIN Fields(type) /\ k \in DOMAIN d.body
                    /\ d.body[k] = "null" =>
                          k \notin DOMAIN type.optional /\ Fields(type)[k] # "error"
              /\ \A k \in DOMAIN v.set : v.set[k] = Held(Fields(type)[k], d.body[k])
  BY DEF Read

\* What MarshalJSON writes.
LEMMA WrittenValue ==
    ASSUME NEW u, NEW v
    PROVE  LET type == u.types[v.variant]
               e == MarshalJSON(u, v)
               tag == u.tags[v.variant]
           IN /\ e = [json |-> v.json, tag |-> e.tag, body |-> e.body]
              /\ e.body = [k \in DOMAIN e.body |-> e.body[k]]
              /\ tag = NoTag => e.tag = Absent
              /\ tag = Kept => e.tag = IF v.tag = Absent THEN Unknown ELSE v.tag
              /\ tag \notin {Kept, NoTag} => e.tag = tag
              /\ DOMAIN e.body = (DOMAIN type.always \cup DOMAIN v.set) \ u.drops
              /\ \A k \in DOMAIN e.body :
                    e.body[k] = IF k \in DOMAIN v.set THEN v.set[k]
                                ELSE Held(type.always[k], "null")
  <1>1. NoTag # Kept
    BY DEF NoTag, Kept
  <1> QED
    BY <1>1 DEF MarshalJSON

\* A variant that fits takes each of its keys' kinds.
LEMMA FitsKeys ==
    ASSUME NEW u, NEW i, NEW d, Document(d), Fits(u, i, d), u.types[i].go = "struct"
    PROVE  /\ d.json \in {"object", "null"}
           /\ Held("struct", d.json) = "object"
           /\ \A k \in DOMAIN Fields(u.types[i]) :
                 k \in DOMAIN d.body => Accepts(Fields(u.types[i])[k], d.body[k])
  <1>1. CASE d.json = "object"
    BY <1>1 DEF Fits, Held
  <1>2. CASE d.json # "object"
    <2>1. d.json = "null" /\ DOMAIN d.body = {}
      BY <1>2 DEF Fits, Document, Accepts, Accepted
    <2> QED
      BY <2>1 DEF Held, FromNull
  <1> QED
    BY <1>1, <1>2

\* What a variant that was read writes is canonical.
LEMMA WritesCanonical ==
    ASSUME NEW u, NEW i, Variant(u, i), u.types[i].go = "struct",
           NEW d, Document(d), Fits(u, i, d), Writable(u, Read(u, i, d))
    PROVE  Canonical(u, i, MarshalJSON(u, Read(u, i, d)))
  <1> DEFINE type == u.types[i]
             fields == Fields(type)
             v == Read(u, i, d)
             e == MarshalJSON(u, v)
  <1>1. /\ v.variant = i /\ v.tag = d.tag /\ v.json = "object"
        /\ \A k : k \in DOMAIN v.set <=>
              /\ k \in DOMAIN fields /\ k \in DOMAIN d.body
              /\ d.body[k] = "null" => k \notin DOMAIN type.optional /\ fields[k] # "error"
        /\ \A k \in DOMAIN v.set : v.set[k] = Held(fields[k], d.body[k])
    BY ReadValue, FitsKeys
  <1>2. /\ DOMAIN fields = DOMAIN type.always \cup DOMAIN type.optional
        /\ \A k \in DOMAIN fields : fields[k] \in GoTypes \ {"empty"}
        /\ \A k \in DOMAIN type.always : fields[k] = type.always[k]
        /\ \A k \in DOMAIN type.optional : fields[k] \notin {"id", "error"}
    BY FieldTypes DEF Variant
  <1>3. /\ e = [json |-> "object", tag |-> e.tag, body |-> e.body]
        /\ e.body = [k \in DOMAIN e.body |-> e.body[k]]
        /\ u.tags[i] = NoTag => e.tag = Absent
        /\ u.tags[i] = Kept => e.tag = IF d.tag = Absent THEN Unknown ELSE d.tag
        /\ u.tags[i] \notin {Kept, NoTag} => e.tag = u.tags[i]
        /\ DOMAIN e.body = (DOMAIN type.always \cup DOMAIN v.set) \ u.drops
        /\ \A k \in DOMAIN e.body :
              e.body[k] = IF k \in DOMAIN v.set THEN v.set[k]
                          ELSE Held(type.always[k], "null")
    BY <1>1, WrittenValue
  <1>4. DOMAIN type.always \subseteq DOMAIN e.body
    BY <1>3 DEF Variant, Sound
  <1>5. \A k \in DOMAIN fields : k \in DOMAIN d.body =>
            d.body[k] \in JsonKinds /\ Accepts(fields[k], d.body[k])
    BY FitsKeys DEF Document
  <1>6. ASSUME NEW k \in DOMAIN v.set
        PROVE  /\ v.set[k] \in JsonKinds
               /\ Accepts(fields[k], v.set[k])
               /\ Held(fields[k], v.set[k]) = v.set[k]
               /\ v.set[k] = "null" => k \notin DOMAIN type.optional /\ fields[k] # "error"
    <2> DEFINE go == fields[k]
               json == d.body[k]
    <2>1. /\ go \in GoTypes /\ go # "empty" /\ json \in JsonKinds /\ Accepts(go, json)
          /\ json = "null" => k \notin DOMAIN type.optional /\ go # "error"
          /\ k \in DOMAIN type.optional => go # "id"
          /\ v.set[k] = Held(go, json)
      BY <1>1, <1>2, <1>5
    <2> HIDE DEF go, json, type, v
    <2>2. /\ Held(go, json) \in JsonKinds
          /\ Accepts(go, Held(go, json))
          /\ Held(go, Held(go, json)) = Held(go, json)
          /\ Held(go, json) = "null" => json = "null" \/ go \in {"id", "empty"}
      BY <2>1, HeldAgain
    <2> QED
      BY <2>1, <2>2 DEF go
  <1>7. ASSUME NEW k \in DOMAIN type.always, k \notin DOMAIN v.set
        PROVE  LET h == Held(type.always[k], "null") IN
               /\ h \in JsonKinds
               /\ Accepts(fields[k], h)
               /\ Held(fields[k], h) = h
               /\ h = "null" => k \notin DOMAIN type.optional /\ fields[k] # "error"
    <2> DEFINE go == fields[k]
    <2>1. go = type.always[k] /\ go \in GoTypes /\ k \notin DOMAIN type.optional
      BY <1>2 DEF Variant, Sound
    <2>2. go # "error"
      BY <2>1, <1>1, <1>7 DEF Writable, Unwritable
    <2>3. "null" \in JsonKinds /\ Accepts(go, "null")
      BY DEF JsonKinds, Accepts
    <2> HIDE DEF go
    <2>4. /\ Held(go, "null") \in JsonKinds
          /\ Accepts(go, Held(go, "null"))
          /\ Held(go, Held(go, "null")) = Held(go, "null")
      BY <2>1, <2>2, <2>3, HeldAgain
    <2> QED
      BY <2>1, <2>2, <2>4 DEF go
  <1>8. ASSUME NEW k \in DOMAIN e.body
        PROVE  /\ k \in DOMAIN fields /\ k \notin u.drops
               /\ e.body[k] \in JsonKinds
               /\ Accepts(fields[k], e.body[k])
               /\ Held(fields[k], e.body[k]) = e.body[k]
               /\ e.body[k] = "null" => k \notin DOMAIN type.optional /\ fields[k] # "error"
    <2>1. k \notin u.drops /\ (k \in DOMAIN type.always \/ k \in DOMAIN v.set)
      BY <1>3
    <2>2. k \in DOMAIN fields
      BY <2>1, <1>1, <1>2
    <2> HIDE DEF e, v, fields, type
    <2>3. CASE k \in DOMAIN v.set
      BY <2>1, <2>2, <2>3, <1>3, <1>6
    <2>4. CASE k \notin DOMAIN v.set
      BY <2>1, <2>2, <2>4, <1>3, <1>7
    <2> QED
      BY <2>3, <2>4
  <1>9. /\ Tagged(u, i) => e.tag = u.cases[i]
        /\ u.cases[i] = NoTag => e.tag = Absent
        /\ u.cases[i] = Kept => e.tag \notin {Absent, IllTyped}
    <2>1. u.tags[i] = u.cases[i]
      BY DEF Variant
    <2>2. u.cases[i] = Kept /\ d.tag = IllTyped => FALSE
      <3>1. d.json = "object" => (d.tag = IllTyped => u.tags[i] = NoTag)
        BY DEF Fits
      <3>2. d.json # "object" => d.tag # IllTyped
        BY DEF Document, Absent, IllTyped
      <3> QED
        BY <3>1, <3>2, <2>1 DEF Kept, NoTag
    <2> QED
      BY <1>3, <2>1, <2>2 DEF Tagged, Kept, NoTag, Absent, Unknown, IllTyped
  <1> QED
    BY <1>3, <1>4, <1>8, <1>9 DEF Canonical

\* A canonical document fits its variant.
LEMMA CanonicalFits ==
    ASSUME NEW u, NEW i, Variant(u, i), u.types[i].go = "struct",
           NEW e, Canonical(u, i, e)
    PROVE  Fits(u, i, e)
  <1>1. e.tag = IllTyped => u.tags[i] = NoTag
    <2>1. u.cases[i] # IllTyped /\ u.tags[i] = u.cases[i]
      BY DEF Variant, Sound
    <2> QED
      BY <2>1 DEF Canonical, Tagged
  <1>2. \A k \in DOMAIN Fields(u.types[i]) \cap DOMAIN e.body :
            Accepts(Fields(u.types[i])[k], e.body[k])
    BY DEF Canonical
  <1>3. e.json = "object"
    BY DEF Canonical
  <1> QED
    BY <1>1, <1>2, <1>3 DEF Fits

\* A document that is read, can be written, and comes out as it was.
Stable(u, e) ==
    LET v == UnmarshalJSON(u, e) IN
    v # Failed /\ Writable(u, v) /\ MarshalJSON(u, v) = e

\* A canonical document that is read as its own variant is stable.
LEMMA CanonicalStable ==
    ASSUME NEW u, NEW i, i # 0, Variant(u, i), u.types[i].go = "struct",
           NEW e, Canonical(u, i, e), Pick(u, e) = i
    PROVE  Stable(u, e)
  <1> DEFINE type == u.types[i]
             fields == Fields(type)
             v == Read(u, i, e)
             w == MarshalJSON(u, v)
  <1>1. e.json = "object" /\ Held("struct", "object") = "object"
    BY DEF Canonical, Held
  <1>2. /\ v.variant = i /\ v.tag = e.tag /\ v.json = "object"
        /\ \A k : k \in DOMAIN v.set <=>
              /\ k \in DOMAIN fields /\ k \in DOMAIN e.body
              /\ e.body[k] = "null" => k \notin DOMAIN type.optional /\ fields[k] # "error"
        /\ \A k \in DOMAIN v.set : v.set[k] = Held(fields[k], e.body[k])
    BY <1>1, ReadValue
  <1>3. DOMAIN v.set = DOMAIN e.body
    BY <1>2 DEF Canonical
  <1>4. \A k \in DOMAIN e.body : v.set[k] = e.body[k]
    BY <1>2, <1>3 DEF Canonical
  <1>5. Writable(u, v)
    BY <1>2, <1>3 DEF Writable, Canonical
  <1>6. /\ w = [json |-> "object", tag |-> w.tag, body |-> w.body]
        /\ w.body = [k \in DOMAIN w.body |-> w.body[k]]
        /\ u.tags[i] = NoTag => w.tag = Absent
        /\ u.tags[i] = Kept => w.tag = IF e.tag = Absent THEN Unknown ELSE e.tag
        /\ u.tags[i] \notin {Kept, NoTag} => w.tag = u.tags[i]
        /\ DOMAIN w.body = (DOMAIN type.always \cup DOMAIN v.set) \ u.drops
        /\ \A k \in DOMAIN w.body :
              w.body[k] = IF k \in DOMAIN v.set THEN v.set[k]
                          ELSE Held(type.always[k], "null")
    BY <1>2, WrittenValue
  <1>7. DOMAIN w.body = DOMAIN e.body
    BY <1>3, <1>6 DEF Canonical
  <1>8. \A k \in DOMAIN e.body : w.body[k] = e.body[k]
    BY <1>3, <1>4, <1>6, <1>7
  <1>9. w.body = e.body
    <2>1. e.body = [k \in DOMAIN e.body |-> e.body[k]]
      BY DEF Canonical
    <2> HIDE DEF w
    <2> QED
      BY <1>6, <1>7, <1>8, <2>1
  <1>10. w.tag = e.tag
    BY <1>6 DEF Canonical, Variant, Tagged
  <1>11. w = e
    BY <1>6, <1>9, <1>10 DEF Canonical
  <1>12. UnmarshalJSON(u, e) = v /\ v # Failed
    BY <1>2 DEF UnmarshalJSON, Failed
  <1> QED
    BY <1>5, <1>11, <1>12 DEF Stable

\* What a variant without a tag of its own writes is not taken for an
\* earlier variant.
Again(u, i) ==
    /\ u.shapes[i] \subseteq DOMAIN u.types[i].always
    /\ \A j \in 1..Len(u.types) :
          j < i /\ (u.cases[i] = NoTag => u.cases[j] = NoTag) =>
              ~(u.shapes[j] \subseteq DOMAIN Fields(u.types[i]))

\* Where that is so, a canonical document is read as the variant that wrote it.
LEMMA CanonicalPick ==
    ASSUME NEW u, Table(u), NEW i \in 1..Len(u.types), u.types[i].go = "struct",
           NEW e, Canonical(u, i, e), Tagged(u, i) \/ Again(u, i),
           u.cases[i] = Kept => \A j \in 1..Len(u.types) : u.cases[j] # e.tag
    PROVE  Pick(u, e) = i
  <1>1. Len(u.types) \in Nat /\ e.json = "object" /\ Variant(u, i)
    BY DEF Table, Canonical
  <1>2. Fits(u, i, e)
    BY <1>1, CanonicalFits
  <1>3. CASE Tagged(u, i)
    <2>1. e.tag = u.cases[i]
      BY <1>3 DEF Canonical
    <2>2. \A j \in 1..Len(u.types) : u.cases[j] = e.tag => j = i
      BY <1>3, <2>1 DEF Table, Distinct
    <2> QED
      BY <1>1, <1>2, <2>1, <2>2, PickByTag
  <1>4. CASE ~Tagged(u, i)
    <2>1. Again(u, i) /\ u.cases[i] \in {Kept, NoTag}
      BY <1>4 DEF Tagged
    <2>2. \A j \in 1..Len(u.types) : u.cases[j] # e.tag
      <3>1. CASE u.cases[i] = Kept
        BY <3>1
      <3>2. CASE u.cases[i] = NoTag
        <4>1. e.tag = Absent
          BY <3>2 DEF Canonical
        <4> QED
          BY <4>1 DEF Table, Variant, Sound
      <3> QED
        BY <2>1, <3>1, <3>2
    <2>3. \A j \in 1..Len(u.types) : u.tags[j] = u.cases[j]
      BY DEF Table, Variant
    <2>4. u.cases[i] # NoTag => e.tag # Absent
      BY <2>1 DEF Canonical
    <2>5. DOMAIN u.types[i].always \subseteq DOMAIN e.body
      BY DEF Canonical
    <2>6. Shaped(u, i, e)
      <3>1. u.shapes[i] \subseteq DOMAIN e.body
        BY <2>1, <2>5 DEF Again
      <3> QED
        BY <2>3, <2>4, <3>1 DEF Shaped
    <2>7. ASSUME NEW j \in 1..Len(u.types), Shaped(u, j, e)
          PROVE  i <= j
      <3>1. u.shapes[j] \subseteq DOMAIN Fields(u.types[i])
        BY <2>7 DEF Shaped, Canonical
      <3>2. u.cases[i] = NoTag => u.cases[j] = NoTag
        <4>1. u.cases[i] = NoTag => e.tag = Absent
          BY DEF Canonical
        <4> QED
          BY <2>3, <2>7, <4>1 DEF Shaped
      <3>3. ~(j < i)
        BY <2>1, <3>1, <3>2 DEF Again
      <3> QED
        BY <1>1, <3>3
    <2> QED
      BY <1>1, <1>2, <2>2, <2>6, <2>7, PickByShape
  <1> QED
    BY <1>3, <1>4

-----------------------------------------------------------------------------
(* The tables, one by one.                                                 *)

\* The table of AgentResponse.
LEMMA AgentResponseTable == Table(AgentResponse)
  <1>1. Len(AgentResponse.types) = 2 /\ Len(AgentResponse.cases) = 2
    BY DEF AgentResponse, Untagged, Union
  <1>2. /\ Variant(AgentResponse, 1)
        /\ Variant(AgentResponse, 2)
    BY DEF AgentResponse, Untagged, Union, Variant, Sound, GoTypes, Accepted, Struct, Strings,
           Of, Meta, None, @@, Kept, NoTag, Absent, Unknown, IllTyped
  <1>3. \A i \in 1..2 : Variant(AgentResponse, i)
    BY <1>1, <1>2
  <1>4. Distinct(AgentResponse)
    BY <1>1 DEF AgentResponse, Untagged, Union, Distinct, Tagged, NoTag, Kept
  <1> QED
    BY <1>1, <1>3, <1>4 DEF Table

\* The table of ClientResponse.
LEMMA ClientResponseTable == Table(ClientResponse)
  <1>1. Len(ClientResponse.types) = 2 /\ Len(ClientResponse.cases) = 2
    BY DEF ClientResponse, Untagged, Union
  <1>2. /\ Variant(ClientResponse, 1)
        /\ Variant(ClientResponse, 2)
    BY DEF ClientResponse, Untagged, Union, Variant, Sound, GoTypes, Accepted, Struct, Strings,
           Of, Meta, None, @@, Kept, NoTag, Absent, Unknown, IllTyped
  <1>3. \A i \in 1..2 : Variant(ClientResponse, i)
    BY <1>1, <1>2
  <1>4. Distinct(ClientResponse)
    BY <1>1 DEF ClientResponse, Untagged, Union, Distinct, Tagged, NoTag, Kept
  <1> QED
    BY <1>1, <1>3, <1>4 DEF Table

\* The table of AuthMethod.
LEMMA AuthMethodTable == Table(AuthMethod)
  <1>1. Len(AuthMethod.types) = 1 /\ Len(AuthMethod.cases) = 1
    BY DEF AuthMethod, Untagged, Union
  <1>2. Variant(AuthMethod, 1)
    BY DEF AuthMethod, Untagged, Union, Variant, Sound, GoTypes, Accepted, Struct, Strings, Of,
           Meta, None, @@, Kept, NoTag, Absent, Unknown, IllTyped
  <1>3. \A i \in 1..1 : Variant(AuthMethod, i)
    BY <1>1, <1>2
  <1>4. Distinct(AuthMethod)
    BY <1>1 DEF AuthMethod, Untagged, Union, Distinct, Tagged, NoTag, Kept
  <1> QED
    BY <1>1, <1>3, <1>4 DEF Table

\* The table of AvailableCommandInput.
LEMMA AvailableCommandInputTable == Table(AvailableCommandInput)
  <1>1. Len(AvailableCommandInput.types) = 1 /\ Len(AvailableCommandInput.cases) = 1
    BY DEF AvailableCommandInput, Untagged, Union
  <1>2. Variant(AvailableCommandInput, 1)
    BY DEF AvailableCommandInput, Untagged, Union, Variant, Sound, GoTypes, Accepted, Struct,
           Strings, Of, Meta, None, @@, Kept, NoTag, Absent, Unknown, IllTyped
  <1>3. \A i \in 1..1 : Variant(AvailableCommandInput, i)
    BY <1>1, <1>2
  <1>4. Distinct(AvailableCommandInput)
    BY <1>1 DEF AvailableCommandInput, Untagged, Union, Distinct, Tagged, NoTag, Kept
  <1> QED
    BY <1>1, <1>3, <1>4 DEF Table

\* The table of ContentBlock.
LEMMA ContentBlockTable == Table(ContentBlock)
  <1>1. Len(ContentBlock.types) = 5 /\ Len(ContentBlock.cases) = 5
    BY DEF ContentBlock, ContentBlockTypes, ContentBlockDecoding, ContentBlockEncoding
  <1>2. /\ ContentBlock.drops = {"_meta", "annotations"}
        /\ \A i \in {1, 2, 3, 4, 5} : ContentBlock.tags[i] = ContentBlock.cases[i]
        /\ ContentBlock.cases[1] = "text"
        /\ ContentBlock.cases[2] = "image"
        /\ ContentBlock.cases[3] = "audio"
        /\ ContentBlock.cases[4] = "resource_link"
        /\ ContentBlock.cases[5] = "resource"
    BY DEF ContentBlock, ContentBlockTypes, ContentBlockDecoding, ContentBlockEncoding
  <1>3. Variant(ContentBlock, 1)
    <2> DEFINE type ==
          Struct(Strings({"text"}), Of("object", {"_meta", "annotations"}))
    <2>1. ContentBlock.types[1] = type
      BY DEF ContentBlock, ContentBlockTypes, ContentBlockDecoding, ContentBlockEncoding
    <2>2. Sound(type, "text", {"_meta", "annotations"})
      BY DEF Sound, GoTypes, Accepted, Struct, Strings, Of, Meta, None, @@,
             Kept, NoTag, Absent, Unknown, IllTyped
    <2> QED
      BY <1>2, <2>1, <2>2 DEF Variant
  <1>4. Variant(ContentBlock, 2)
    <2> DEFINE type ==
          Struct(Strings({"data", "mimeType"}), Of("object", {"_meta", "annotations"}) @@
              Strings({"uri"}))
    <2>1. ContentBlock.types[2] = type
      BY DEF ContentBlock, ContentBlockTypes, ContentBlockDecoding, ContentBlockEncoding
    <2>2. Sound(type, "image", {"_meta", "annotations"})
      BY DEF Sound, GoTypes, Accepted, Struct, Strings, Of, Meta, None, @@,
             Kept, NoTag, Absent, Unknown, IllTyped
    <2> QED
      BY <1>2, <2>1, <2>2 DEF Variant
  <1>5. Variant(ContentBlock, 3)
    <2> DEFINE type ==
          Struct(Strings({"data", "mimeType"}), Of("object", {"_meta", "annotations"}))
    <2>1. ContentBlock.types[3] = type
      BY DEF ContentBlock, ContentBlockTypes, ContentBlockDecoding, ContentBlockEncoding
    <2>2. Sound(type, "audio", {"_meta", "annotations"})
      BY DEF Sound, GoTypes, Accepted, Struct, Strings, Of, Meta, None, @@,
             Kept, NoTag, Absent, Unknown, IllTyped
    <2> QED
      BY <1>2, <2>1, <2>2 DEF Variant
  <1>6. Variant(ContentBlock, 4)
    <2> DEFINE type ==
          Struct(Strings({"name", "uri"}), Of("object", {"_meta", "annotations"}) @@
              Strings({"description", "mimeType", "title"}) @@ Of("int", {"size"}))
    <2>1. ContentBlock.types[4] = type
      BY DEF ContentBlock, ContentBlockTypes, ContentBlockDecoding, ContentBlockEncoding
    <2>2. Sound(type, "resource_link", {"_meta", "annotations"})
      BY DEF Sound, GoTypes, Accepted, Struct, Strings, Of, Meta, None, @@,
             Kept, NoTag, Absent, Unknown, IllTyped
    <2> QED
      BY <1>2, <2>1, <2>2 DEF Variant
  <1>7. Variant(ContentBlock, 5)
    <2> DEFINE type ==
          Struct(Of("union", {"resource"}), Of("object", {"_meta", "annotations"}))
    <2>1. ContentBlock.types[5] = type
      BY DEF ContentBlock, ContentBlockTypes, ContentBlockDecoding, ContentBlockEncoding
    <2>2. Sound(type, "resource", {"_meta", "annotations"})
      BY DEF Sound, GoTypes, Accepted, Struct, Strings, Of, Meta, None, @@,
             Kept, NoTag, Absent, Unknown, IllTyped
    <2> QED
      BY <1>2, <2>1, <2>2 DEF Variant
  <1>8. \A i \in 1..5 : Variant(ContentBlock, i)
    BY <1>1, <1>3, <1>4, <1>5, <1>6, <1>7
  <1>9. Distinct(ContentBlock)
    BY <1>1 DEF ContentBlock, ContentBlockTypes, ContentBlockDecoding, ContentBlockEncoding,
           Distinct, Tagged, NoTag, Kept
  <1> QED
    BY <1>1, <1>8, <1>9 DEF Table

\* The table of CreateElicitationRequest.
LEMMA CreateElicitationRequestTable == Table(CreateElicitationRequest)
  <1>1. Len(CreateElicitationRequest.types) = 3 /\ Len(CreateElicitationRequest.cases) = 3
    BY DEF CreateElicitationRequest, Union
  <1>2. /\ Variant(CreateElicitationRequest, 1)
        /\ Variant(CreateElicitationRequest, 2)
        /\ Variant(CreateElicitationRequest, 3)
    BY DEF CreateElicitationRequest, Union, Variant, Sound, GoTypes, Accepted, Struct, Strings,
           Of, Meta, None, @@, Kept, NoTag, Absent, Unknown, IllTyped
  <1>3. \A i \in 1..3 : Variant(CreateElicitationRequest, i)
    BY <1>1, <1>2
  <1>4. Distinct(CreateElicitationRequest)
    BY <1>1 DEF CreateElicitationRequest, Union, Distinct, Tagged, NoTag, Kept
  <1> QED
    BY <1>1, <1>3, <1>4 DEF Table

\* The table of CreateElicitationResponse.
LEMMA CreateElicitationResponseTable == Table(CreateElicitationResponse)
  <1>1. Len(CreateElicitationResponse.types) = 4 /\ Len(CreateElicitationResponse.cases) = 4
    BY DEF CreateElicitationResponse, Union
  <1>2. /\ Variant(CreateElicitationResponse, 1)
        /\ Variant(CreateElicitationResponse, 2)
        /\ Variant(CreateElicitationResponse, 3)
        /\ Variant(CreateElicitationResponse, 4)
    BY DEF CreateElicitationResponse, Union, Variant, Sound, GoTypes, Accepted, Struct, Strings,
           Of, Meta, None, @@, Kept, NoTag, Absent, Unknown, IllTyped
  <1>3. \A i \in 1..4 : Variant(CreateElicitationResponse, i)
    BY <1>1, <1>2
  <1>4. Distinct(CreateElicitationResponse)
    BY <1>1 DEF CreateElicitationResponse, Union, Distinct, Tagged, NoTag, Kept
  <1> QED
    BY <1>1, <1>3, <1>4 DEF Table

\* The table of ElicitationContentValue.
LEMMA ElicitationContentValueTable == Table(ElicitationContentValue)
  <1>1. Len(ElicitationContentValue.types) = 5 /\ Len(ElicitationContentValue.cases) = 5
    BY DEF ElicitationContentValue, Scalars, Scalar, Untagged, Union
  <1>2. /\ Variant(ElicitationContentValue, 1)
        /\ Variant(ElicitationContentValue, 2)
        /\ Variant(ElicitationContentValue, 3)
        /\ Variant(ElicitationContentValue, 4)
        /\ Variant(ElicitationContentValue, 5)
    BY DEF ElicitationContentValue, Scalars, Scalar, Untagged, Union, Variant, Sound, GoTypes,
           Accepted, Struct, Strings, Of, Meta, None, @@, Kept, NoTag, Absent, Unknown, IllTyped
  <1>3. \A i \in 1..5 : Variant(ElicitationContentValue, i)
    BY <1>1, <1>2
  <1>4. Distinct(ElicitationContentValue)
    BY <1>1 DEF ElicitationContentValue, Scalars, Scalar, Untagged, Union, Distinct, Tagged,
           NoTag, Kept
  <1> QED
    BY <1>1, <1>3, <1>4 DEF Table

\* The table of ElicitationFormMode.
LEMMA ElicitationFormModeTable == Table(ElicitationFormMode)
  <1>1. Len(ElicitationFormMode.types) = 2 /\ Len(ElicitationFormMode.cases) = 2
    BY DEF ElicitationFormMode, Untagged, Union
  <1>2. /\ Variant(ElicitationFormMode, 1)
        /\ Variant(ElicitationFormMode, 2)
    BY DEF ElicitationFormMode, Untagged, Union, Variant, Sound, GoTypes, Accepted, Struct,
           Strings, Of, Meta, None, @@, Kept, NoTag, Absent, Unknown, IllTyped
  <1>3. \A i \in 1..2 : Variant(ElicitationFormMode, i)
    BY <1>1, <1>2
  <1>4. Distinct(ElicitationFormMode)
    BY <1>1 DEF ElicitationFormMode, Untagged, Union, Distinct, Tagged, NoTag, Kept
  <1> QED
    BY <1>1, <1>3, <1>4 DEF Table

\* The table of ElicitationUrlMode.
LEMMA ElicitationUrlModeTable == Table(ElicitationUrlMode)
  <1>1. Len(ElicitationUrlMode.types) = 2 /\ Len(ElicitationUrlMode.cases) = 2
    BY DEF ElicitationUrlMode, Untagged, Union
  <1>2. /\ Variant(ElicitationUrlMode, 1)
        /\ Variant(ElicitationUrlMode, 2)
    BY DEF ElicitationUrlMode, Untagged, Union, Variant, Sound, GoTypes, Accepted, Struct,
           Strings, Of, Meta, None, @@, Kept, NoTag, Absent, Unknown, IllTyped
  <1>3. \A i \in 1..2 : Variant(ElicitationUrlMode, i)
    BY <1>1, <1>2
  <1>4. Distinct(ElicitationUrlMode)
    BY <1>1 DEF ElicitationUrlMode, Untagged, Union, Distinct, Tagged, NoTag, Kept
  <1> QED
    BY <1>1, <1>3, <1>4 DEF Table

\* The table of ElicitationPropertySchema.
LEMMA ElicitationPropertySchemaTable == Table(ElicitationPropertySchema)
  <1>1. Len(ElicitationPropertySchema.types) = 6 /\ Len(ElicitationPropertySchema.cases) = 6
    BY DEF ElicitationPropertySchema, ElicitationPropertyTypes, ElicitationPropertyDecoding,
        ElicitationPropertyEncoding
  <1>2. /\ ElicitationPropertySchema.drops = {}
        /\ \A i \in {1, 2, 3, 4, 5, 6} : ElicitationPropertySchema.tags[i] = ElicitationPropertySchema.cases[i]
        /\ ElicitationPropertySchema.cases[1] = "string"
        /\ ElicitationPropertySchema.cases[2] = "number"
        /\ ElicitationPropertySchema.cases[3] = "integer"
        /\ ElicitationPropertySchema.cases[4] = "boolean"
        /\ ElicitationPropertySchema.cases[5] = "array"
        /\ ElicitationPropertySchema.cases[6] = Kept
    BY DEF ElicitationPropertySchema, ElicitationPropertyTypes, ElicitationPropertyDecoding,
        ElicitationPropertyEncoding
  <1>3. Variant(ElicitationPropertySchema, 1)
    <2> DEFINE type ==
          Struct(None, Meta @@ Strings({"description", "title"}) @@ Strings({"default",
              "format", "pattern"}) @@ Of("int", {"maxLength", "minLength"}) @@ Of("array",
              {"enum", "oneOf"}))
    <2>1. ElicitationPropertySchema.types[1] = type
      BY SMTT(30) DEF ElicitationPropertySchema, ElicitationPropertyTypes, ElicitationPropertyDecoding,
          ElicitationPropertyEncoding
    <2>2. Sound(type, "string", {})
      BY DEF Sound, GoTypes, Accepted, Struct, Strings, Of, Meta, None, @@,
             Kept, NoTag, Absent, Unknown, IllTyped
    <2> QED
      BY <1>2, <2>1, <2>2 DEF Variant
  <1>4. Variant(ElicitationPropertySchema, 2)
    <2> DEFINE type ==
          Struct(None, Meta @@ Strings({"description", "title"}) @@ Of("float", {"default",
              "maximum", "minimum"}))
    <2>1. ElicitationPropertySchema.types[2] = type
      BY DEF ElicitationPropertySchema, ElicitationPropertyTypes, ElicitationPropertyDecoding,
          ElicitationPropertyEncoding
    <2>2. Sound(type, "number", {})
      BY DEF Sound, GoTypes, Accepted, Struct, Strings, Of, Meta, None, @@,
             Kept, NoTag, Absent, Unknown, IllTyped
    <2> QED
      BY <1>2, <2>1, <2>2 DEF Variant
  <1>5. Variant(ElicitationPropertySchema, 3)
    <2> DEFINE type ==
          Struct(None, Meta @@ Strings({"description", "title"}) @@ Of("int", {"default",
              "maximum", "minimum"}))
    <2>1. ElicitationPropertySchema.types[3] = type
      BY DEF ElicitationPropertySchema, ElicitationPropertyTypes, ElicitationPropertyDecoding,
          ElicitationPropertyEncoding
    <2>2. Sound(type, "integer", {})
      BY DEF Sound, GoTypes, Accepted, Struct, Strings, Of, Meta, None, @@,
             Kept, NoTag, Absent, Unknown, IllTyped
    <2> QED
      BY <1>2, <2>1, <2>2 DEF Variant
  <1>6. Variant(ElicitationPropertySchema, 4)
    <2> DEFINE type ==
          Struct(None, Meta @@ Strings({"description", "title"}) @@ Of("bool", {"default"}))
    <2>1. ElicitationPropertySchema.types[4] = type
      BY DEF ElicitationPropertySchema, ElicitationPropertyTypes, ElicitationPropertyDecoding,
          ElicitationPropertyEncoding
    <2>2. Sound(type, "boolean", {})
      BY DEF Sound, GoTypes, Accepted, Struct, Strings, Of, Meta, None, @@,
             Kept, NoTag, Absent, Unknown, IllTyped
    <2> QED
      BY <1>2, <2>1, <2>2 DEF Variant
  <1>7. Variant(ElicitationPropertySchema, 5)
    <2> DEFINE type ==
          Struct(Of("union", {"items"}), Meta @@ Strings({"description", "title"}) @@
              Of("array", {"default"}) @@ Of("int", {"maxItems", "minItems"}))
    <2>1. ElicitationPropertySchema.types[5] = type
      BY DEF ElicitationPropertySchema, ElicitationPropertyTypes, ElicitationPropertyDecoding,
          ElicitationPropertyEncoding
    <2>2. Sound(type, "array", {})
      BY DEF Sound, GoTypes, Accepted, Struct, Strings, Of, Meta, None, @@,
             Kept, NoTag, Absent, Unknown, IllTyped
    <2> QED
      BY <1>2, <2>1, <2>2 DEF Variant
  <1>8. Variant(ElicitationPropertySchema, 6)
    <2> DEFINE type ==
          Struct(None, None)
    <2>1. ElicitationPropertySchema.types[6] = type
      BY DEF ElicitationPropertySchema, ElicitationPropertyTypes, ElicitationPropertyDecoding,
          ElicitationPropertyEncoding
    <2>2. Sound(type, Kept, {})
      BY DEF Sound, GoTypes, Accepted, Struct, Strings, Of, Meta, None, @@,
             Kept, NoTag, Absent, Unknown, IllTyped
    <2> QED
      BY <1>2, <2>1, <2>2 DEF Variant
  <1>9. \A i \in 1..6 : Variant(ElicitationPropertySchema, i)
    BY <1>1, <1>3, <1>4, <1>5, <1>6, <1>7, <1>8
  <1>10. Distinct(ElicitationPropertySchema)
    BY <1>1 DEF ElicitationPropertySchema, ElicitationPropertyTypes,
           ElicitationPropertyDecoding, ElicitationPropertyEncoding, Distinct, Tagged, NoTag,
           Kept
  <1> QED
    BY <1>1, <1>9, <1>10 DEF Table

\* The table of EmbeddedResourceResource.
LEMMA EmbeddedResourceResourceTable == Table(EmbeddedResourceResource)
  <1>1. Len(EmbeddedResourceResource.types) = 2 /\ Len(EmbeddedResourceResource.cases) = 2
    BY DEF EmbeddedResourceResource, Untagged, Union
  <1>2. /\ Variant(EmbeddedResourceResource, 1)
        /\ Variant(EmbeddedResourceResource, 2)
    BY DEF EmbeddedResourceResource, Untagged, Union, Variant, Sound, GoTypes, Accepted, Struct,
           Strings, Of, Meta, None, @@, Kept, NoTag, Absent, Unknown, IllTyped
  <1>3. \A i \in 1..2 : Variant(EmbeddedResourceResource, i)
    BY <1>1, <1>2
  <1>4. Distinct(EmbeddedResourceResource)
    BY <1>1 DEF EmbeddedResourceResource, Untagged, Union, Distinct, Tagged, NoTag, Kept
  <1> QED
    BY <1>1, <1>3, <1>4 DEF Table

\* The table of ErrorCode.
LEMMA ErrorCodeTable == Table(ErrorCode)
  <1>1. Len(ErrorCode.types) = 9 /\ Len(ErrorCode.cases) = 9
    BY SMTT(30) DEF ErrorCode, Scalars, Scalar, Untagged, Union
  <1>2. /\ Variant(ErrorCode, 1)
        /\ Variant(ErrorCode, 2)
        /\ Variant(ErrorCode, 3)
        /\ Variant(ErrorCode, 4)
        /\ Variant(ErrorCode, 5)
        /\ Variant(ErrorCode, 6)
        /\ Variant(ErrorCode, 7)
        /\ Variant(ErrorCode, 8)
        /\ Variant(ErrorCode, 9)
    BY DEF ErrorCode, Scalars, Scalar, Untagged, Union, Variant, Sound, GoTypes, Accepted,
           Struct, Strings, Of, Meta, None, @@, Kept, NoTag, Absent, Unknown, IllTyped
  <1>3. \A i \in 1..9 : Variant(ErrorCode, i)
    BY <1>1, <1>2
  <1>4. Distinct(ErrorCode)
    BY <1>1 DEF ErrorCode, Scalars, Scalar, Untagged, Union, Distinct, Tagged, NoTag, Kept
  <1> QED
    BY <1>1, <1>3, <1>4 DEF Table

\* The table of McpServer.
LEMMA McpServerTable == Table(McpServer)
  <1>1. Len(McpServer.types) = 3 /\ Len(McpServer.cases) = 3
    BY SMTT(30) DEF McpServer, Union
  <1>2. /\ Variant(McpServer, 1)
        /\ Variant(McpServer, 2)
        /\ Variant(McpServer, 3)
    BY DEF McpServer, Union, Variant, Sound, GoTypes, Accepted, Struct, Strings, Of, Meta, None,
           @@, Kept, NoTag, Absent, Unknown, IllTyped
  <1>3. \A i \in 1..3 : Variant(McpServer, i)
    BY <1>1, <1>2
  <1>4. Distinct(McpServer)
    BY <1>1 DEF McpServer, Union, Distinct, Tagged, NoTag, Kept
  <1> QED
    BY <1>1, <1>3, <1>4 DEF Table

\* The table of MultiSelectItems.
LEMMA MultiSelectItemsTable == Table(MultiSelectItems)
  <1>1. Len(MultiSelectItems.types) = 3 /\ Len(MultiSelectItems.cases) = 3
    BY DEF MultiSelectItems, Union
  <1>2. /\ Variant(MultiSelectItems, 1)
        /\ Variant(MultiSelectItems, 2)
        /\ Variant(MultiSelectItems, 3)
    BY DEF MultiSelectItems, Union, Variant, Sound, GoTypes, Accepted, Struct, Strings, Of,
           Meta, None, @@, Kept, NoTag, Absent, Unknown, IllTyped
  <1>3. \A i \in 1..3 : Variant(MultiSelectItems, i)
    BY <1>1, <1>2
  <1>4. Distinct(MultiSelectItems)
    BY <1>1 DEF MultiSelectItems, Union, Distinct, Tagged, NoTag, Kept
  <1> QED
    BY <1>1, <1>3, <1>4 DEF Table

\* The table of RequestId.
LEMMA RequestIdTable == Table(RequestId)
  <1>1. Len(RequestId.types) = 3 /\ Len(RequestId.cases) = 3
    BY DEF RequestId, Scalars, Scalar, Untagged, Union
  <1>2. /\ Variant(RequestId, 1)
        /\ Variant(RequestId, 2)
        /\ Variant(RequestId, 3)
    BY DEF RequestId, Scalars, Scalar, Untagged, Union, Variant, Sound, GoTypes, Accepted,
           Struct, Strings, Of, Meta, None, @@, Kept, NoTag, Absent, Unknown, IllTyped
  <1>3. \A i \in 1..3 : Variant(RequestId, i)
    BY <1>1, <1>2
  <1>4. Distinct(RequestId)
    BY <1>1 DEF RequestId, Scalars, Scalar, Untagged, Union, Distinct, Tagged, NoTag, Kept
  <1> QED
    BY <1>1, <1>3, <1>4 DEF Table

\* The table of RequestPermissionOutcome.
LEMMA RequestPermissionOutcomeTable == Table(RequestPermissionOutcome)
  <1>1. Len(RequestPermissionOutcome.types) = 2 /\ Len(RequestPermissionOutcome.cases) = 2
    BY DEF RequestPermissionOutcome, Union
  <1>2. /\ Variant(RequestPermissionOutcome, 1)
        /\ Variant(RequestPermissionOutcome, 2)
    BY DEF RequestPermissionOutcome, Union, Variant, Sound, GoTypes, Accepted, Struct, Strings,
           Of, Meta, None, @@, Kept, NoTag, Absent, Unknown, IllTyped
  <1>3. \A i \in 1..2 : Variant(RequestPermissionOutcome, i)
    BY <1>1, <1>2
  <1>4. Distinct(RequestPermissionOutcome)
    BY <1>1 DEF RequestPermissionOutcome, Union, Distinct, Tagged, NoTag, Kept
  <1> QED
    BY <1>1, <1>3, <1>4 DEF Table

\* The table of SessionConfigOption.
LEMMA SessionConfigOptionTable == Table(SessionConfigOption)
  <1>1. Len(SessionConfigOption.types) = 2 /\ Len(SessionConfigOption.cases) = 2
    BY SMTT(30) DEF SessionConfigOption, Union
  <1>2. /\ Variant(SessionConfigOption, 1)
        /\ Variant(SessionConfigOption, 2)
    BY DEF SessionConfigOption, Union, Variant, Sound, GoTypes, Accepted, Struct, Strings, Of,
           Meta, None, @@, Kept, NoTag, Absent, Unknown, IllTyped
  <1>3. \A i \in 1..2 : Variant(SessionConfigOption, i)
    BY <1>1, <1>2
  <1>4. Distinct(SessionConfigOption)
    BY <1>1 DEF SessionConfigOption, Union, Distinct, Tagged, NoTag, Kept
  <1> QED
    BY <1>1, <1>3, <1>4 DEF Table

\* The table of SessionUpdate.
LEMMA SessionUpdateTable == Table(SessionUpdate)
  <1>1. Len(SessionUpdate.types) = 11 /\ Len(SessionUpdate.cases) = 11
    BY SMTT(30) DEF SessionUpdate, SessionUpdateTypes, SessionUpdateCases, SessionUpdateShapes,
        SessionUpdateTags
  <1>2. /\ SessionUpdate.drops = {}
        /\ \A i \in {1, 2, 3, 4, 5, 6, 7, 8, 9, 10, 11} : SessionUpdate.tags[i] = SessionUpdate.cases[i]
        /\ SessionUpdate.cases[1] = "user_message_chunk"
        /\ SessionUpdate.cases[2] = "agent_message_chunk"
        /\ SessionUpdate.cases[3] = "agent_thought_chunk"
        /\ SessionUpdate.cases[4] = "tool_call"
        /\ SessionUpdate.cases[5] = "tool_call_update"
        /\ SessionUpdate.cases[6] = "plan"
        /\ SessionUpdate.cases[7] = "available_commands_update"
        /\ SessionUpdate.cases[8] = "current_mode_update"
        /\ SessionUpdate.cases[9] = "config_option_update"
        /\ SessionUpdate.cases[10] = "session_info_update"
        /\ SessionUpdate.cases[11] = "usage_update"
    BY DEF SessionUpdate, SessionUpdateTypes, SessionUpdateCases, SessionUpdateShapes,
        SessionUpdateTags
  <1>3. Variant(SessionUpdate, 1)
    <2> DEFINE type ==
          Struct(Of("union", {"content"}), Meta @@ Strings({"messageId"}))
    <2>1. SessionUpdate.types[1] = type
      BY DEF SessionUpdate, SessionUpdateTypes, SessionUpdateCases, SessionUpdateShapes,
          SessionUpdateTags
    <2>2. Sound(type, "user_message_chunk", {})
      BY DEF Sound, GoTypes, Accepted, Struct, Strings, Of, Meta, None, @@,
             Kept, NoTag, Absent, Unknown, IllTyped
    <2> QED
      BY <1>2, <2>1, <2>2 DEF Variant
  <1>4. Variant(SessionUpdate, 2)
    <2> DEFINE type ==
          Struct(Of("union", {"content"}), Meta @@ Strings({"messageId"}))
    <2>1. SessionUpdate.types[2] = type
      BY DEF SessionUpdate, SessionUpdateTypes, SessionUpdateCases, SessionUpdateShapes,
          SessionUpdateTags
    <2>2. Sound(type, "agent_message_chunk", {})
      BY DEF Sound, GoTypes, Accepted, Struct, Strings, Of, Meta, None, @@,
             Kept, NoTag, Absent, Unknown, IllTyped
    <2> QED
      BY <1>2, <2>1, <2>2 DEF Variant
  <1>5. Variant(SessionUpdate, 3)
    <2> DEFINE type ==
          Struct(Of("union", {"content"}), Meta @@ Strings({"messageId"}))
    <2>1. SessionUpdate.types[3] = type
      BY DEF SessionUpdate, SessionUpdateTypes, SessionUpdateCases, SessionUpdateShapes,
          SessionUpdateTags
    <2>2. Sound(type, "agent_thought_chunk", {})
      BY DEF Sound, GoTypes, Accepted, Struct, Strings, Of, Meta, None, @@,
             Kept, NoTag, Absent, Unknown, IllTyped
    <2> QED
      BY <1>2, <2>1, <2>2 DEF Variant
  <1>6. Variant(SessionUpdate, 4)
    <2> DEFINE type ==
          Struct(Strings({"title", "toolCallId"}), Meta @@ Of("array", {"content", "locations"})
              @@ Strings({"kind", "status"}) @@ Of("any", {"rawInput", "rawOutput"}))
    <2>1. SessionUpdate.types[4] = type
      BY DEF SessionUpdate, SessionUpdateTypes, SessionUpdateCases, SessionUpdateShapes,
          SessionUpdateTags
    <2>2. Sound(type, "tool_call", {})
      BY DEF Sound, GoTypes, Accepted, Struct, Strings, Of, Meta, None, @@,
             Kept, NoTag, Absent, Unknown, IllTyped
    <2> QED
      BY <1>2, <2>1, <2>2 DEF Variant
  <1>7. Variant(SessionUpdate, 5)
    <2> DEFINE type ==
          Struct(Strings({"toolCallId"}), Meta @@ Of("array", {"content", "locations"}) @@
              Strings({"kind", "status"}) @@ Of("any", {"rawInput", "rawOutput"}) @@
              Strings({"title"}))
    <2>1. SessionUpdate.types[5] = type
      BY SMTT(30) DEF SessionUpdate, SessionUpdateTypes, SessionUpdateCases, SessionUpdateShapes,
          SessionUpdateTags
    <2>2. Sound(type, "tool_call_update", {})
      BY DEF Sound, GoTypes, Accepted, Struct, Strings, Of, Meta, None, @@,
             Kept, NoTag, Absent, Unknown, IllTyped
    <2> QED
      BY <1>2, <2>1, <2>2 DEF Variant
  <1>8. Variant(SessionUpdate, 6)
    <2> DEFINE type ==
          Struct(Of("array", {"entries"}), Meta)
    <2>1. SessionUpdate.types[6] = type
      BY DEF SessionUpdate, SessionUpdateTypes, SessionUpdateCases, SessionUpdateShapes,
          SessionUpdateTags
    <2>2. Sound(type, "plan", {})
      BY DEF Sound, GoTypes, Accepted, Struct, Strings, Of, Meta, None, @@,
             Kept, NoTag, Absent, Unknown, IllTyped
    <2> QED
      BY <1>2, <2>1, <2>2 DEF Variant
  <1>9. Variant(SessionUpdate, 7)
    <2> DEFINE type ==
          Struct(Of("array", {"availableCommands"}), Meta)
    <2>1. SessionUpdate.types[7] = type
      BY DEF SessionUpdate, SessionUpdateTypes, SessionUpdateCases, SessionUpdateShapes,
          SessionUpdateTags
    <2>2. Sound(type, "available_commands_update", {})
      BY DEF Sound, GoTypes, Accepted, Struct, Strings, Of, Meta, None, @@,
             Kept, NoTag, Absent, Unknown, IllTyped
    <2> QED
      BY <1>2, <2>1, <2>2 DEF Variant
  <1>10. Variant(SessionUpdate, 8)
    <2> DEFINE type ==
          Struct(Strings({"currentModeId"}), Meta)
    <2>1. SessionUpdate.types[8] = type
      BY DEF SessionUpdate, SessionUpdateTypes, SessionUpdateCases, SessionUpdateShapes,
          SessionUpdateTags
    <2>2. Sound(type, "current_mode_update", {})
      BY DEF Sound, GoTypes, Accepted, Struct, Strings, Of, Meta, None, @@,
             Kept, NoTag, Absent, Unknown, IllTyped
    <2> QED
      BY <1>2, <2>1, <2>2 DEF Variant
  <1>11. Variant(SessionUpdate, 9)
    <2> DEFINE type ==
          Struct(Of("array", {"configOptions"}), Meta)
    <2>1. SessionUpdate.types[9] = type
      BY DEF SessionUpdate, SessionUpdateTypes, SessionUpdateCases, SessionUpdateShapes,
          SessionUpdateTags
    <2>2. Sound(type, "config_option_update", {})
      BY DEF Sound, GoTypes, Accepted, Struct, Strings, Of, Meta, None, @@,
             Kept, NoTag, Absent, Unknown, IllTyped
    <2> QED
      BY <1>2, <2>1, <2>2 DEF Variant
  <1>12. Variant(SessionUpdate, 10)
    <2> DEFINE type ==
          Struct(None, Meta @@ Strings({"title", "updatedAt"}))
    <2>1. SessionUpdate.types[10] = type
      BY DEF SessionUpdate, SessionUpdateTypes, SessionUpdateCases, SessionUpdateShapes,
          SessionUpdateTags
    <2>2. Sound(type, "session_info_update", {})
      BY DEF Sound, GoTypes, Accepted, Struct, Strings, Of, Meta, None, @@,
             Kept, NoTag, Absent, Unknown, IllTyped
    <2> QED
      BY <1>2, <2>1, <2>2 DEF Variant
  <1>13. Variant(SessionUpdate, 11)
    <2> DEFINE type ==
          Struct(Of("int", {"used", "size"}), Meta @@ Of("object", {"cost"}))
    <2>1. SessionUpdate.types[11] = type
      BY DEF SessionUpdate, SessionUpdateTypes, SessionUpdateCases, SessionUpdateShapes,
          SessionUpdateTags
    <2>2. Sound(type, "usage_update", {})
      BY DEF Sound, GoTypes, Accepted, Struct, Strings, Of, Meta, None, @@,
             Kept, NoTag, Absent, Unknown, IllTyped
    <2> QED
      BY <1>2, <2>1, <2>2 DEF Variant
  <1>14. \A i \in 1..11 : Variant(SessionUpdate, i)
    BY <1>1, <1>3, <1>4, <1>5, <1>6, <1>7, <1>8, <1>9, <1>10, <1>11, <1>12, <1>13
  <1>15. Distinct(SessionUpdate)
    BY <1>1 DEF SessionUpdate, SessionUpdateTypes, SessionUpdateCases, SessionUpdateShapes,
           SessionUpdateTags, Distinct, Tagged, NoTag, Kept
  <1> QED
    BY <1>1, <1>14, <1>15 DEF Table

\* The table of SetSessionConfigOptionRequest.
LEMMA SetSessionConfigOptionRequestTable == Table(SetSessionConfigOptionRequest)
  <1>1. Len(SetSessionConfigOptionRequest.types) = 2 /\ Len(SetSessionConfigOptionRequest.cases) = 2
    BY DEF SetSessionConfigOptionRequest, Union
  <1>2. /\ Variant(SetSessionConfigOptionRequest, 1)
        /\ Variant(SetSessionConfigOptionRequest, 2)
    BY DEF SetSessionConfigOptionRequest, Union, Variant, Sound, GoTypes, Accepted, Struct,
           Strings, Of, Meta, None, @@, Kept, NoTag, Absent, Unknown, IllTyped
  <1>3. \A i \in 1..2 : Variant(SetSessionConfigOptionRequest, i)
    BY <1>1, <1>2
  <1>4. Distinct(SetSessionConfigOptionRequest)
    BY <1>1 DEF SetSessionConfigOptionRequest, Union, Distinct, Tagged, NoTag, Kept
  <1> QED
    BY <1>1, <1>3, <1>4 DEF Table

\* The table of ToolCallContent.
LEMMA ToolCallContentTable == Table(ToolCallContent)
  <1>1. Len(ToolCallContent.types) = 3 /\ Len(ToolCallContent.cases) = 3
    BY DEF ToolCallContent, Union
  <1>2. /\ Variant(ToolCallContent, 1)
        /\ Variant(ToolCallContent, 2)
        /\ Variant(ToolCallContent, 3)
    BY DEF ToolCallContent, Union, Variant, Sound, GoTypes, Accepted, Struct, Strings, Of, Meta,
           None, @@, Kept, NoTag, Absent, Unknown, IllTyped
  <1>3. \A i \in 1..3 : Variant(ToolCallContent, i)
    BY <1>1, <1>2
  <1>4. Distinct(ToolCallContent)
    BY <1>1 DEF ToolCallContent, Union, Distinct, Tagged, NoTag, Kept
  <1> QED
    BY <1>1, <1>3, <1>4 DEF Table
\* The names of the unions.
LEMMA UnionNames ==
    ASSUME NEW x \in DOMAIN Unions
    PROVE  x \in {"AgentResponse", "ClientResponse", "AuthMethod", "AvailableCommandInput",
                  "ContentBlock", "CreateElicitationRequest", "CreateElicitationResponse",
                  "ElicitationContentValue", "ElicitationFormMode", "ElicitationUrlMode",
                  "ElicitationPropertySchema", "EmbeddedResourceResource", "ErrorCode",
                  "McpServer", "MultiSelectItems", "RequestId", "RequestPermissionOutcome",
                  "SessionConfigOption", "SessionUpdate", "SetSessionConfigOptionRequest",
                  "ToolCallContent"}
  BY DEF Unions

\* The table each name stands for.
LEMMA UnionValues ==
    /\ Unions["AgentResponse"] = AgentResponse
    /\ Unions["ClientResponse"] = ClientResponse
    /\ Unions["AuthMethod"] = AuthMethod
    /\ Unions["AvailableCommandInput"] = AvailableCommandInput
    /\ Unions["ContentBlock"] = ContentBlock
    /\ Unions["CreateElicitationRequest"] = CreateElicitationRequest
    /\ Unions["CreateElicitationResponse"] = CreateElicitationResponse
    /\ Unions["ElicitationContentValue"] = ElicitationContentValue
    /\ Unions["ElicitationFormMode"] = ElicitationFormMode
    /\ Unions["ElicitationUrlMode"] = ElicitationUrlMode
    /\ Unions["ElicitationPropertySchema"] = ElicitationPropertySchema
    /\ Unions["EmbeddedResourceResource"] = EmbeddedResourceResource
    /\ Unions["ErrorCode"] = ErrorCode
    /\ Unions["McpServer"] = McpServer
    /\ Unions["MultiSelectItems"] = MultiSelectItems
    /\ Unions["RequestId"] = RequestId
    /\ Unions["RequestPermissionOutcome"] = RequestPermissionOutcome
    /\ Unions["SessionConfigOption"] = SessionConfigOption
    /\ Unions["SessionUpdate"] = SessionUpdate
    /\ Unions["SetSessionConfigOptionRequest"] = SetSessionConfigOptionRequest
    /\ Unions["ToolCallContent"] = ToolCallContent
  BY DEF Unions

\* Every union has a sound table.
LEMMA EveryTable ==
    ASSUME NEW x \in DOMAIN Unions
    PROVE  Table(Unions[x])
  BY UnionValues, UnionNames, AgentResponseTable, ClientResponseTable, AuthMethodTable,
       AvailableCommandInputTable, ContentBlockTable, CreateElicitationRequestTable,
       CreateElicitationResponseTable, ElicitationContentValueTable,
       ElicitationFormModeTable, ElicitationUrlModeTable, ElicitationPropertySchemaTable,
       EmbeddedResourceResourceTable, ErrorCodeTable, McpServerTable, MultiSelectItemsTable,
       RequestIdTable, RequestPermissionOutcomeTable, SessionConfigOptionTable,
       SessionUpdateTable, SetSessionConfigOptionRequestTable, ToolCallContentTable

-----------------------------------------------------------------------------
(* Writing once settles a document.                                        *)

\* A canonical document is a document.
LEMMA CanonicalDocument ==
    ASSUME NEW u, NEW i, NEW e, Canonical(u, i, e)
    PROVE  Document(e)
  <1>1. e.json = "object"
    BY DEF Canonical
  <1> QED
    BY <1>1 DEF Canonical, Document, JsonKinds

\* What reading chooses, and why.
LEMMA ReadAs ==
    ASSUME NEW u, Table(u), NEW d, UnmarshalJSON(u, d) # Failed
    PROVE  /\ Pick(u, d) \in 1..Len(u.types)
           /\ Fits(u, Pick(u, d), d)
           /\ UnmarshalJSON(u, d) = Read(u, Pick(u, d), d)
           /\ UnmarshalJSON(u, d).variant = Pick(u, d)
  <1>1. Pick(u, d) # 0 /\ UnmarshalJSON(u, d) = Read(u, Pick(u, d), d)
    BY DEF UnmarshalJSON
  <1>2. Len(u.types) \in Nat
    BY DEF Table
  <1>3. Pick(u, d) \in 1..Len(u.types)
    BY <1>1, <1>2, PickFits
  <1>4. Fits(u, Pick(u, d), d)
    BY <1>1, <1>2, PickFits
  <1>5. Read(u, Pick(u, d), d).variant = Pick(u, d)
    BY ReadValue
  <1> QED
    BY <1>1, <1>3, <1>4, <1>5

\* A document with a variant's own tag is an object, and is read as that
\* variant or not at all.
LEMMA TagPicks ==
    ASSUME NEW u, Table(u), NEW d, Document(d),
           NEW j \in 1..Len(u.types), Tagged(u, j), u.cases[j] = d.tag
    PROVE  Pick(u, d) \in {0, j}
  <1>1. d.json = "object"
    BY DEF Document, Table, Variant, Sound
  <1>2. Len(u.types) \in Nat
    BY DEF Table
  <1>3. \A k \in 1..Len(u.types) : u.cases[k] = d.tag => k = j
    BY DEF Table, Distinct
  <1> QED
    BY <1>1, <1>2, <1>3, PickByTag

Settled(u, i) == u.types[i].go = "struct" /\ (Tagged(u, i) \/ Again(u, i))

\* A variant that is settled writes what it reads again, and the same.
LEMMA SettledStable ==
    ASSUME NEW u, Table(u), NEW d, Document(d), d.tag \notin {Kept, NoTag},
           UnmarshalJSON(u, d) # Failed, Settled(u, Pick(u, d)),
           Writable(u, UnmarshalJSON(u, d))
    PROVE  LET e == MarshalJSON(u, UnmarshalJSON(u, d)) IN
           Document(e) /\ Stable(u, e)
  <1> DEFINE i == Pick(u, d)
             v == Read(u, i, d)
             e == MarshalJSON(u, v)
  <1>1. i \in 1..Len(u.types) /\ Fits(u, i, d) /\ UnmarshalJSON(u, d) = v
    BY ReadAs
  <1>2. Variant(u, i) /\ Len(u.types) \in Nat
    BY <1>1 DEF Table
  <1>3. Canonical(u, i, e)
    BY <1>1, <1>2, WritesCanonical DEF Settled
  <1>4. ASSUME u.cases[i] = Kept, NEW j \in 1..Len(u.types)
        PROVE  u.cases[j] # e.tag
    <2>1. e.tag = IF d.tag = Absent THEN Unknown ELSE d.tag
      <3>1. v.variant = i /\ v.tag = d.tag
        BY ReadValue
      <3>2. u.tags[i] = Kept
        BY <1>2, <1>4 DEF Variant
      <3> HIDE DEF i, v
      <3>3. u.tags[v.variant] = Kept
        BY <3>1, <3>2
      <3>4. e.tag = IF v.tag = Absent THEN Unknown ELSE v.tag
        BY <3>3, WrittenValue
      <3> QED
        BY <3>1, <3>4
    <2>2. u.cases[j] # Unknown
      BY DEF Table, Variant, Sound
    <2>3. u.cases[j] # d.tag
      <3> SUFFICES ASSUME u.cases[j] = d.tag
                   PROVE  FALSE
        OBVIOUS
      <3>1. Tagged(u, j)
        BY DEF Tagged
      <3>2. i = j
        BY <1>1, <3>1, TagPicks
      <3> QED
        BY <1>4, <3>1, <3>2 DEF Tagged
    <2> QED
      BY <2>1, <2>2, <2>3
  <1>5. u.types[i].go = "struct" /\ (Tagged(u, i) \/ Again(u, i))
    BY DEF Settled
  <1>6. Pick(u, e) = i
    <2> HIDE DEF i, e
    <2> QED
      BY <1>1, <1>3, <1>4, <1>5, CanonicalPick
  <1>7. Stable(u, e)
    <2>1. i # 0
      BY <1>1
    <2> HIDE DEF i, e
    <2> QED
      BY <1>2, <1>3, <1>5, <1>6, <2>1, CanonicalStable
  <1>8. Document(e)
    <2> HIDE DEF i, e
    <2> QED
      BY <1>3, CanonicalDocument
  <1> QED
    BY <1>1, <1>7, <1>8

\* Variants told apart by their Go types.
ScalarTable(u) ==
    \A i \in 1..Len(u.types) :
        /\ u.types[i] = Scalar(u.types[i].go)
        /\ u.types[i].go \in {"string", "int", "float", "bool", "array", "empty"}
        /\ u.types[i].go = "empty" => i = 1
        /\ u.cases[i] = NoTag /\ "-" \in u.shapes[i]

\* The least fitting variant is chosen where neither a tag nor keys tell.
LEMMA PickBefore ==
    ASSUME NEW u, Len(u.types) \in Nat, NEW d,
           d.json = "object" => \A j \in 1..Len(u.types) :
                                    u.cases[j] # d.tag /\ ~Shaped(u, j, d),
           NEW i \in 1..Len(u.types), Fits(u, i, d)
    PROVE  /\ Pick(u, d) \in 1..Len(u.types) /\ Pick(u, d) <= i
           /\ Fits(u, Pick(u, d), d)
  <1> DEFINE fitting == {j \in 1..Len(u.types) : Fits(u, j, d)}
             m == Min(fitting)
  <1>1. fitting \in SUBSET Nat /\ i \in fitting
    OBVIOUS
  <1>2. m \in fitting /\ \A j \in fitting : m <= j
    <2> HIDE DEF fitting
    <2> QED
      BY <1>1, LeastOf
  <1>3. m \in 1..Len(u.types) /\ Fits(u, m, d)
    <2> HIDE DEF m
    <2> QED
      BY <1>2
  <1>4. \A j \in 1..Len(u.types) : Fits(u, j, d) => m <= j
    <2> HIDE DEF m
    <2> QED
      BY <1>2
  <1>5. Pick(u, d) = m
    <2> HIDE DEF m
    <2> QED
      BY <1>3, <1>4, PickByFit
  <1> QED
    BY <1>1, <1>2, <1>3, <1>5

\* The keys of a scalar variant, and when it fits.
LEMMA ScalarVariant ==
    ASSUME NEW u, Table(u), ScalarTable(u), NEW i \in 1..Len(u.types)
    PROVE  /\ DOMAIN u.types[i].always = {} /\ DOMAIN u.types[i].optional = {}
           /\ DOMAIN Fields(u.types[i]) = {}
           /\ u.types[i].go \in GoTypes
           /\ u.types[i].go \notin {"struct", "error", "union", "id", "object", "any"}
           /\ u.tags[i] = NoTag
           /\ \A d : Fits(u, i, d) <=> Accepts(u.types[i].go, d.json)
           /\ \A d : DOMAIN d.body = {} /\ d.tag = Absent =>
                 u.cases[i] # d.tag /\ ~Shaped(u, i, d)
  <1> DEFINE go == u.types[i].go
  <1>1. /\ u.types[i] = Scalar(go)
        /\ go \in {"string", "int", "float", "bool", "array", "empty"}
        /\ u.cases[i] = NoTag /\ "-" \in u.shapes[i]
    BY DEF ScalarTable
  <1>2. DOMAIN u.types[i].always = {} /\ DOMAIN u.types[i].optional = {}
    BY <1>1 DEF Scalar, None, Of
  <1>3. DOMAIN Fields(u.types[i]) = {}
    <2>1. DOMAIN Fields(u.types[i]) = DOMAIN u.types[i].always \cup DOMAIN u.types[i].optional
      BY FieldKeys
    <2> QED
      BY <1>2, <2>1
  <1>4. go \in GoTypes
    BY <1>1 DEF GoTypes, Accepted
  <1>5. u.tags[i] = NoTag
    BY <1>1 DEF Table, Variant
  <1>6. go \notin {"struct", "error", "union", "id", "object", "any"}
    BY <1>1
  <1>7. \A d : Fits(u, i, d) <=> Accepts(go, d.json)
    BY <1>6 DEF Fits
  <1>8. \A d : DOMAIN d.body = {} /\ d.tag = Absent =>
            u.cases[i] # d.tag /\ ~Shaped(u, i, d)
    BY <1>1 DEF Shaped, NoTag, Absent
  <1> QED
    BY <1>2, <1>3, <1>4, <1>5, <1>6, <1>7, <1>8

\* What a scalar variant reads from a document without keys, and writes.
LEMMA ScalarWritten ==
    ASSUME NEW u, Table(u), ScalarTable(u), NEW i \in 1..Len(u.types), NEW d
    PROVE  LET v == Read(u, i, d)
               e == MarshalJSON(u, v)
           IN /\ Writable(u, v)
              /\ e = [json |-> Held(u.types[i].go, d.json), tag |-> Absent, body |-> e.body]
              /\ e.body = [k \in DOMAIN e.body |-> e.body[k]]
              /\ DOMAIN e.body = {}
  <1> DEFINE v == Read(u, i, d)
             e == MarshalJSON(u, v)
  <1>1. /\ DOMAIN u.types[i].always = {} /\ DOMAIN Fields(u.types[i]) = {}
        /\ u.tags[i] = NoTag
    BY ScalarVariant
  <1>2. /\ v.variant = i /\ v.json = Held(u.types[i].go, d.json)
        /\ \A k : k \in DOMAIN v.set => k \in DOMAIN Fields(u.types[i])
    BY ReadValue
  <1>3. Writable(u, v)
    BY <1>1, <1>2 DEF Writable
  <1>4. /\ e = [json |-> v.json, tag |-> e.tag, body |-> e.body]
        /\ e.body = [k \in DOMAIN e.body |-> e.body[k]]
        /\ e.tag = Absent
        /\ DOMAIN e.body = (DOMAIN u.types[i].always \cup DOMAIN v.set) \ u.drops
    <2> HIDE DEF v
    <2> QED
      BY <1>1, <1>2, WrittenValue
  <1>5. DOMAIN e.body = {}
    BY <1>1, <1>2, <1>4
  <1> QED
    BY <1>2, <1>3, <1>4, <1>5

\* A kind that one scalar wrote, another reads as it is.
LEMMA ScalarHolds ==
    ASSUME NEW go \in {"string", "int", "float", "bool", "array", "empty"},
           NEW json \in JsonKinds, Accepts(go, json),
           NEW to \in {"string", "int", "float", "bool", "array", "empty"},
           Held(go, json) = "null" => go = to,
           Accepts(to, Held(go, json))
    PROVE  Held(to, Held(go, json)) = Held(go, json)
  BY DEF Accepts, Accepted, Held, FromNull, JsonKinds

\* Where only Go types tell, what is written may be read as an earlier
\* variant, but is written the same again.
LEMMA ScalarStable ==
    ASSUME NEW u, Table(u), ScalarTable(u),
           NEW d, Document(d), DOMAIN d.body = {}, d.tag = Absent,
           UnmarshalJSON(u, d) # Failed
    PROVE  LET e == MarshalJSON(u, UnmarshalJSON(u, d)) IN
           Document(e) /\ Stable(u, e)
  <1> DEFINE i == Pick(u, d)
             go == u.types[i].go
             v == Read(u, i, d)
             e == MarshalJSON(u, v)
             j == Pick(u, e)
             to == u.types[j].go
             w == MarshalJSON(u, Read(u, j, e))
  <1>1. i \in 1..Len(u.types) /\ Fits(u, i, d) /\ UnmarshalJSON(u, d) = v
    BY ReadAs
  <1>2. Len(u.types) \in Nat
    BY DEF Table
  <1>3. go \in GoTypes /\ go # "error" /\ Accepts(go, d.json) /\ d.json \in JsonKinds
    BY <1>1, ScalarVariant DEF Document
  <1>4. /\ e = [json |-> Held(go, d.json), tag |-> Absent, body |-> e.body]
        /\ e.body = [k \in DOMAIN e.body |-> e.body[k]]
        /\ DOMAIN e.body = {}
    BY <1>1, ScalarWritten
  <1>5. Held(go, d.json) \in JsonKinds /\ Accepts(go, Held(go, d.json))
    <2> HIDE DEF go
    <2> QED
      BY <1>3, HeldAgain
  <1>6. e.json = Held(go, d.json) /\ e.tag = Absent
    <2> HIDE DEF e, go
    <2> QED
      BY <1>4
  <1>7. Fits(u, i, e)
    <2> HIDE DEF e, i
    <2> QED
      BY <1>1, <1>5, <1>6, ScalarVariant
  <1>8. j \in 1..Len(u.types) /\ j <= i /\ Fits(u, j, e)
    <2>1. \A k \in 1..Len(u.types) : u.cases[k] # e.tag /\ ~Shaped(u, k, e)
      <3> HIDE DEF e
      <3> QED
        BY <1>4, <1>6, ScalarVariant
    <2> HIDE DEF e, i
    <2> QED
      BY <1>1, <1>2, <1>7, <2>1, PickBefore
  <1>9. Accepts(to, e.json)
    <2> HIDE DEF e, j
    <2> QED
      BY <1>8, ScalarVariant
  <1>10. ASSUME Held(go, d.json) = "null"
         PROVE  i = 1
    <2>1. CASE d.json = "null"
      <3>1. 1 \in 1..Len(u.types)
        BY <1>1, <1>2
      <3>2. Fits(u, 1, d)
        BY <2>1, <3>1, ScalarVariant DEF Accepts
      <3>3. \A k \in 1..Len(u.types) : u.cases[k] # d.tag /\ ~Shaped(u, k, d)
        BY ScalarVariant
      <3>4. i <= 1
        BY <1>2, <3>1, <3>2, <3>3, PickBefore
      <3> QED
        BY <1>1, <1>2, <3>4
    <2>2. CASE d.json # "null"
      <3>1. go \in {"id", "empty"}
        <4> HIDE DEF go
        <4> QED
          BY <1>3, <1>10, <2>2, HeldAgain
      <3>2. go # "id"
        BY <1>1, ScalarVariant
      <3> QED
        BY <1>1, <3>1, <3>2 DEF ScalarTable
    <2> QED
      BY <2>1, <2>2
  <1>11. Held(to, e.json) = e.json
    <2>1. /\ go \in {"string", "int", "float", "bool", "array", "empty"}
          /\ to \in {"string", "int", "float", "bool", "array", "empty"}
      <3> HIDE DEF i, j
      <3> QED
        BY <1>1, <1>8 DEF ScalarTable
    <2>2. Held(go, d.json) = "null" => go = to
      <3> SUFFICES ASSUME Held(go, d.json) = "null"
                   PROVE  i = j
        OBVIOUS
      <3>1. i = 1
        BY <1>10
      <3> HIDE DEF i, j
      <3> QED
        BY <1>2, <1>8, <3>1
    <2> HIDE DEF go, to, e
    <2> QED
      BY <1>3, <1>6, <1>9, <2>1, <2>2, ScalarHolds
  <1>12. /\ w = [json |-> Held(to, e.json), tag |-> Absent, body |-> w.body]
         /\ w.body = [k \in DOMAIN w.body |-> w.body[k]]
         /\ DOMAIN w.body = {}
         /\ Writable(u, Read(u, j, e))
    <2> HIDE DEF e, j
    <2> QED
      BY <1>8, ScalarWritten
  <1>13. w = e
    <2> HIDE DEF w, e, to, go
    <2>1. w.body = e.body
      BY <1>4, <1>12
    <2> QED
      BY <1>4, <1>6, <1>11, <1>12, <2>1
  <1>14. Stable(u, e)
    <2>1. UnmarshalJSON(u, e) = Read(u, j, e)
      BY <1>8 DEF UnmarshalJSON
    <2>2. Read(u, j, e).variant = j
      BY ReadValue
    <2>3. UnmarshalJSON(u, e) # Failed
      <3> HIDE DEF j, e
      <3> QED
        BY <1>8, <2>1, <2>2 DEF Failed
    <2> HIDE DEF j, e
    <2> QED
      BY <1>12, <1>13, <2>1, <2>3 DEF Stable, w
  <1>15. Document(e)
    <2> HIDE DEF e, go
    <2> QED
      BY <1>4, <1>5, <1>6 DEF Document
  <1> QED
    BY <1>1, <1>14, <1>15

\* Unions all of whose variants have a tag.
LEMMA TaggedUnions ==
    /\ \A i \in 1..Len(ContentBlock.types) : Settled(ContentBlock, i)
    /\ \A i \in 1..Len(RequestPermissionOutcome.types) : Settled(RequestPermissionOutcome, i)
    /\ \A i \in 1..Len(SessionConfigOption.types) : Settled(SessionConfigOption, i)
    /\ \A i \in 1..Len(SessionUpdate.types) : Settled(SessionUpdate, i)
    /\ \A i \in 1..Len(ToolCallContent.types) : Settled(ToolCallContent, i)
  <1>1. \A i \in 1..Len(ContentBlock.types) : Tagged(ContentBlock, i)
    BY DEF ContentBlock, ContentBlockTypes, ContentBlockDecoding, ContentBlockEncoding,
           Tagged, Kept, NoTag
  <1>2. \A i \in 1..Len(RequestPermissionOutcome.types) : Tagged(RequestPermissionOutcome, i)
    BY DEF RequestPermissionOutcome, Union, Tagged, Kept, NoTag
  <1>3. \A i \in 1..Len(SessionConfigOption.types) : Tagged(SessionConfigOption, i)
    BY DEF SessionConfigOption, Union, Tagged, Kept, NoTag
  <1>4. \A i \in 1..Len(SessionUpdate.types) : Tagged(SessionUpdate, i)
    BY DEF SessionUpdate, SessionUpdateTypes, SessionUpdateCases, SessionUpdateShapes,
           SessionUpdateTags, Tagged, Kept, NoTag
  <1>5. \A i \in 1..Len(ToolCallContent.types) : Tagged(ToolCallContent, i)
    BY DEF ToolCallContent, Union, Tagged, Kept, NoTag
  <1> QED
    BY <1>1, <1>2, <1>3, <1>4, <1>5, ContentBlockTable, RequestPermissionOutcomeTable,
       SessionConfigOptionTable, SessionUpdateTable, ToolCallContentTable DEF Table,
       Variant, Sound, Tagged, Settled

\* AgentResponse writes what it reads as the same variant.
LEMMA AgentResponseSettled == \A i \in 1..Len(AgentResponse.types) : Settled(AgentResponse, i)
  <1>1. Len(AgentResponse.types) = 2
    BY DEF AgentResponse, Untagged, Union
  <1>2. Settled(AgentResponse, 1)
    BY DEF AgentResponse, Untagged, Union, Settled, Again, Struct, Of, @@
  <1>3. Settled(AgentResponse, 2)
    <2>1. /\ AgentResponse.types[2].go = "struct"
          /\ AgentResponse.shapes[2] \subseteq DOMAIN AgentResponse.types[2].always
          /\ DOMAIN AgentResponse.types[2].always = {"id", "error"}
          /\ DOMAIN AgentResponse.types[2].optional = {}
      BY DEF AgentResponse, Untagged, Union, Struct, Of, None, @@
    <2>2. "result" \notin DOMAIN Fields(AgentResponse.types[2])
      <3> DEFINE type == AgentResponse.types[2]
      <3>1. DOMAIN type.always = {"id", "error"} /\ DOMAIN type.optional = {}
        BY <2>1
      <3> HIDE DEF type
      <3>2. DOMAIN Fields(type) = DOMAIN type.always \cup DOMAIN type.optional
        BY FieldKeys
      <3>3. "result" \notin DOMAIN Fields(type)
        BY <3>1, <3>2
      <3> QED
        BY <3>3 DEF type
    <2>3. "result" \in AgentResponse.shapes[1]
      BY DEF AgentResponse, Untagged, Union
    <2> QED
      BY <1>1, <2>1, <2>2, <2>3 DEF Settled, Again
  <1> QED
    BY <1>1, <1>2, <1>3

\* ClientResponse is declared as AgentResponse is.
LEMMA ClientResponseSettled == \A i \in 1..Len(ClientResponse.types) : Settled(ClientResponse, i)
  <1>1. ClientResponse = AgentResponse
    BY DEF AgentResponse, ClientResponse
  <1> QED
    BY <1>1, AgentResponseSettled

\* AuthMethod writes what it reads as the same variant.
LEMMA AuthMethodSettled == \A i \in 1..Len(AuthMethod.types) : Settled(AuthMethod, i)
  <1>1. Len(AuthMethod.types) = 1
    BY DEF AuthMethod, Untagged, Union
  <1>2. Settled(AuthMethod, 1)
    BY DEF AuthMethod, Untagged, Union, Settled, Tagged, Again, Fields, Struct, Strings, Of,
           Meta, None, @@, Kept, NoTag
  <1> QED
    BY <1>1, <1>2

\* AvailableCommandInput writes what it reads as the same variant.
LEMMA AvailableCommandInputSettled == \A i \in 1..Len(AvailableCommandInput.types) : Settled(AvailableCommandInput, i)
  <1>1. Len(AvailableCommandInput.types) = 1
    BY DEF AvailableCommandInput, Untagged, Union
  <1>2. Settled(AvailableCommandInput, 1)
    BY DEF AvailableCommandInput, Untagged, Union, Settled, Tagged, Again, Fields, Struct,
           Strings, Of, Meta, None, @@, Kept, NoTag
  <1> QED
    BY <1>1, <1>2

\* CreateElicitationRequest writes what it reads as the same variant.
LEMMA CreateElicitationRequestSettled == \A i \in 1..Len(CreateElicitationRequest.types) : Settled(CreateElicitationRequest, i)
  <1>1. Len(CreateElicitationRequest.types) = 3
    BY DEF CreateElicitationRequest, Union
  <1>2. /\ Settled(CreateElicitationRequest, 1)
        /\ Settled(CreateElicitationRequest, 2)
        /\ Settled(CreateElicitationRequest, 3)
    BY DEF CreateElicitationRequest, Union, Settled, Tagged, Again, Fields, Struct, Strings,
           Of, Meta, None, @@, Kept, NoTag
  <1> QED
    BY <1>1, <1>2

\* ElicitationFormMode writes what it reads as the same variant.
LEMMA ElicitationFormModeSettled == \A i \in 1..Len(ElicitationFormMode.types) : Settled(ElicitationFormMode, i)
  <1>1. Len(ElicitationFormMode.types) = 2
    BY DEF ElicitationFormMode, Untagged, Union
  <1>2. /\ Settled(ElicitationFormMode, 1)
        /\ Settled(ElicitationFormMode, 2)
    BY DEF ElicitationFormMode, Untagged, Union, Settled, Tagged, Again, Fields, Struct,
           Strings, Of, Meta, None, @@, Kept, NoTag
  <1> QED
    BY <1>1, <1>2

\* ElicitationUrlMode writes what it reads as the same variant.
LEMMA ElicitationUrlModeSettled == \A i \in 1..Len(ElicitationUrlMode.types) : Settled(ElicitationUrlMode, i)
  <1>1. Len(ElicitationUrlMode.types) = 2
    BY DEF ElicitationUrlMode, Untagged, Union
  <1>2. /\ Settled(ElicitationUrlMode, 1)
        /\ Settled(ElicitationUrlMode, 2)
    BY DEF ElicitationUrlMode, Untagged, Union, Settled, Tagged, Again, Fields, Struct,
           Strings, Of, Meta, None, @@, Kept, NoTag
  <1> QED
    BY <1>1, <1>2

\* EmbeddedResourceResource writes what it reads as the same variant.
LEMMA EmbeddedResourceResourceSettled == \A i \in 1..Len(EmbeddedResourceResource.types) : Settled(EmbeddedResourceResource, i)
  <1>1. Len(EmbeddedResourceResource.types) = 2
    BY DEF EmbeddedResourceResource, Untagged, Union
  <1>2. /\ Settled(EmbeddedResourceResource, 1)
        /\ Settled(EmbeddedResourceResource, 2)
    BY DEF EmbeddedResourceResource, Untagged, Union, Settled, Tagged, Again, Fields,
           Struct, Strings, Of, Meta, None, @@, Kept, NoTag
  <1> QED
    BY <1>1, <1>2

\* McpServer writes what it reads as the same variant.
LEMMA McpServerSettled == \A i \in 1..Len(McpServer.types) : Settled(McpServer, i)
  <1>1. Len(McpServer.types) = 3
    BY DEF McpServer, Union
  <1>2. /\ Settled(McpServer, 1)
        /\ Settled(McpServer, 2)
        /\ Settled(McpServer, 3)
    BY DEF McpServer, Union, Settled, Tagged, Again, Fields, Struct, Strings, Of, Meta,
           None, @@, Kept, NoTag
  <1> QED
    BY <1>1, <1>2

\* MultiSelectItems writes what it reads as the same variant.
LEMMA MultiSelectItemsSettled == \A i \in 1..Len(MultiSelectItems.types) : Settled(MultiSelectItems, i)
  <1>1. Len(MultiSelectItems.types) = 3
    BY DEF MultiSelectItems, Union
  <1>2. /\ Settled(MultiSelectItems, 1)
        /\ Settled(MultiSelectItems, 2)
        /\ Settled(MultiSelectItems, 3)
    BY DEF MultiSelectItems, Union, Settled, Tagged, Again, Fields, Struct, Strings, Of,
           Meta, None, @@, Kept, NoTag
  <1> QED
    BY <1>1, <1>2

\* SetSessionConfigOptionRequest writes what it reads as the same variant.
LEMMA SetSessionConfigOptionRequestSettled == \A i \in 1..Len(SetSessionConfigOptionRequest.types) : Settled(SetSessionConfigOptionRequest, i)
  <1>1. Len(SetSessionConfigOptionRequest.types) = 2
    BY DEF SetSessionConfigOptionRequest, Union
  <1>2. /\ Settled(SetSessionConfigOptionRequest, 1)
        /\ Settled(SetSessionConfigOptionRequest, 2)
    BY DEF SetSessionConfigOptionRequest, Union, Settled, Tagged, Again, Fields, Struct,
           Strings, Of, Meta, None, @@, Kept, NoTag
  <1> QED
    BY <1>1, <1>2

\* The unions of scalars.
LEMMA ScalarUnions ==
    ScalarTable(ElicitationContentValue) /\ ScalarTable(ErrorCode) /\ ScalarTable(RequestId)
  <1>1. ScalarTable(ElicitationContentValue)
    BY DEF ElicitationContentValue, ScalarTable, Scalars, Scalar, Untagged, Union, NoTag
  <1>2. ScalarTable(ErrorCode)
    BY DEF ErrorCode, ScalarTable, Scalars, Scalar, Untagged, Union, NoTag
  <1>3. ScalarTable(RequestId)
    BY DEF RequestId, ScalarTable, Scalars, Scalar, Untagged, Union, NoTag
  <1> QED
    BY <1>1, <1>2, <1>3

-----------------------------------------------------------------------------
(* The documents that are sent.                                            *)

\* The kind written for a Go type is one of the kinds it takes.
LEMMA NaturalFits ==
    ASSUME NEW go \in GoTypes
    PROVE  Natural(go) \in JsonKinds /\ Accepts(go, Natural(go))
  BY DEF GoTypes, Accepted, JsonKinds, Accepts, Natural

\* The keys of a document that is sent and their kinds.
LEMMA BodyKinds ==
    ASSUME NEW u, Table(u), NEW i \in 1..Len(u.types), NEW j \in 1..Len(u.types),
           NEW b \in Bodies(u, i, j), NEW k \in DOMAIN b
    PROVE  b[k] \in JsonKinds
  <1> DEFINE always == u.types[i].always @@ u.types[j].always
             optional == u.types[i].optional
             plain == Plain(always)
  <1>1. /\ \A x \in DOMAIN u.types[i].always : u.types[i].always[x] \in GoTypes
        /\ \A x \in DOMAIN u.types[j].always : u.types[j].always[x] \in GoTypes
        /\ \A x \in DOMAIN optional : optional[x] \in GoTypes
    BY DEF Table, Variant, Sound
  <1>2. \A x \in DOMAIN always : always[x] \in GoTypes
    BY <1>1 DEF @@
  <1>3. ASSUME NEW p \in plain, NEW x \in DOMAIN p
        PROVE  p[x] \in JsonKinds
    <2> HIDE DEF always
    <2> QED
      BY <1>2, NaturalFits DEF Plain
  <1>4. CASE b \in plain
    BY <1>3, <1>4
  <1>5. ASSUME NEW p \in plain, NEW x \in DOMAIN p, NEW json \in JsonKinds,
               b = [p EXCEPT ![x] = json]
        PROVE  b[k] \in JsonKinds
    <2> HIDE DEF plain
    <2> QED
      BY <1>3, <1>5
  <1>6. ASSUME NEW p \in plain, NEW o \in DOMAIN optional,
               b = p @@ Of(Natural(optional[o]), {o})
        PROVE  b[k] \in JsonKinds
    <2>1. Natural(optional[o]) \in JsonKinds
      BY <1>1, NaturalFits
    <2> HIDE DEF plain, optional
    <2> QED
      BY <1>3, <1>6, <2>1 DEF @@, Of
  <1>7. \/ b \in plain
        \/ \E p \in plain : \E x \in DOMAIN p, json \in JsonKinds : b = [p EXCEPT ![x] = json]
        \/ \E p \in plain : \E o \in DOMAIN optional :
              b = p @@ Of(Natural(optional[o]), {o})
    <2>1. b \in plain \cup Odd(plain) \cup Richer(plain, optional)
      BY DEF Bodies
    <2> HIDE DEF plain, optional
    <2>2. b \in Odd(plain) => \E p \in plain : \E x \in DOMAIN p, json \in JsonKinds :
                                 b = [p EXCEPT ![x] = json]
      BY DEF Odd
    <2>3. b \in Richer(plain, optional) =>
              \E p \in plain : \E o \in DOMAIN optional :
                  b = p @@ Of(Natural(optional[o]), {o})
      BY DEF Richer
    <2> QED
      BY <2>1, <2>2, <2>3
  <1> QED
    BY <1>4, <1>5, <1>6, <1>7

\* What the agent sends is a document, whose tag no variant keeps for itself.
LEMMA SentDocument ==
    ASSUME NEW u, Table(u), NEW d \in Documents(u)
    PROVE  Document(d) /\ d.tag \notin {Kept, NoTag}
  <1>1. CASE d \in {[json |-> json, tag |-> Absent, body |-> None] : json \in JsonKinds}
    <2>1. PICK json \in JsonKinds : d = [json |-> json, tag |-> Absent, body |-> None]
      BY <1>1
    <2>2. DOMAIN None = {}
      BY DEF None, Of
    <2> QED
      BY <2>1, <2>2 DEF Document, Absent, Kept, NoTag
  <1>2. ASSUME NEW i \in 1..Len(u.types), NEW j \in 1..Len(u.types),
               d \in [json : {"object"}, tag : Tags(u), body : Bodies(u, i, j)]
        PROVE  Document(d) /\ d.tag \notin {Kept, NoTag}
    <2>1. d = [json |-> d.json, tag |-> d.tag, body |-> d.body] /\ d.json = "object"
      BY <1>2
    <2>2. d.body \in Bodies(u, i, j) /\ d.tag \in Tags(u)
      BY <1>2
    <2>3. \A k \in DOMAIN d.body : d.body[k] \in JsonKinds
      BY <2>2, BodyKinds
    <2>4. d.tag \notin {Kept, NoTag}
      BY <2>2 DEF Tags, Absent, Unknown, IllTyped, Kept, NoTag
    <2> QED
      BY <2>1, <2>3, <2>4 DEF Document, JsonKinds
  <1>3. \/ d \in {[json |-> json, tag |-> Absent, body |-> None] : json \in JsonKinds}
        \/ \E i, j \in 1..Len(u.types) :
              d \in [json : {"object"}, tag : Tags(u), body : Bodies(u, i, j)]
    <2>1. \/ d \in {[json |-> json, tag |-> Absent, body |-> None] : json \in JsonKinds}
          \/ d \in UNION {UNION {[json : {"object"}, tag : Tags(u), body : Bodies(u, i, j)] :
                                    j \in 1..Len(u.types)} : i \in 1..Len(u.types)}
      BY DEF Documents
    <2> QED
      BY <2>1
  <1> QED
    BY <1>1, <1>2, <1>3

\* A last variant that keeps the tag is not read where the first one takes
\* every tag and an earlier one fits whenever the last does.
LEMMA NeverLast ==
    ASSUME NEW u, Table(u), NEW n \in Nat, n = Len(u.types), 1 < n,
           \A j \in 1..n : u.tags[j] # NoTag,
           u.shapes[1] = {}, u.cases[n] = Kept,
           NEW d, Document(d), d.tag \notin {Kept, NoTag},
           d.tag = Absent /\ Fits(u, n, d) => \E j \in 1..n : j < n /\ Fits(u, j, d)
    PROVE  Pick(u, d) # n
  <1>1. CASE \E j \in 1..n : u.cases[j] = d.tag
    <2>1. PICK j \in 1..n : u.cases[j] = d.tag
      BY <1>1
    <2>2. Tagged(u, j) /\ j # n
      BY <2>1 DEF Tagged
    <2>3. Pick(u, d) \in {0, j}
      BY <2>1, <2>2, TagPicks
    <2> QED
      BY <2>2, <2>3
  <1>2. CASE d.tag # Absent /\ ~\E j \in 1..n : u.cases[j] = d.tag
    <2>1. d.json = "object"
      BY <1>2 DEF Document
    <2>2. 1 \in 1..n /\ Shaped(u, 1, d)
      BY <1>2 DEF Shaped
    <2>3. \A j \in 1..Len(u.types) : Shaped(u, j, d) => 1 <= j
      OBVIOUS
    <2>4. Pick(u, d) = IF Fits(u, 1, d) THEN 1 ELSE 0
      BY <1>2, <2>1, <2>2, <2>3, PickByShape
    <2> QED
      BY <2>4
  <1>3. CASE d.tag = Absent /\ ~\E j \in 1..n : u.cases[j] = d.tag
    <2>1. \A j \in 1..n : u.cases[j] # d.tag /\ ~Shaped(u, j, d)
      BY <1>3 DEF Shaped
    <2>2. Pick(u, d) # 0 => Fits(u, Pick(u, d), d)
      BY PickFits
    <2> SUFFICES ASSUME Pick(u, d) = n
                 PROVE  FALSE
      OBVIOUS
    <2>3. Fits(u, n, d)
      BY <2>2
    <2>4. PICK j \in 1..n : j < n /\ Fits(u, j, d)
      BY <1>3, <2>3
    <2>5. Pick(u, d) <= j
      BY <2>1, <2>4, PickBefore
    <2> QED
      BY <2>4, <2>5
  <1> QED
    BY <1>1, <1>2, <1>3

\* An elicitation's answer is never read as the variant that keeps the tag:
\* a tag no variant has is read as the first.
LEMMA ElicitationResponseSettled ==
    ASSUME NEW d, Document(d), d.tag \notin {Kept, NoTag},
           UnmarshalJSON(CreateElicitationResponse, d) # Failed
    PROVE  Settled(CreateElicitationResponse, Pick(CreateElicitationResponse, d))
  <1> DEFINE u == CreateElicitationResponse
  <1>1. /\ Len(u.types) = 4 /\ u.cases[4] = Kept /\ u.shapes[1] = {}
        /\ u.types[2] = u.types[4]
        /\ Tagged(u, 1) /\ Tagged(u, 2) /\ Tagged(u, 3)
    BY DEF CreateElicitationResponse, Union, Tagged, Kept, NoTag
  <1>2. \A j \in 1..4 : u.tags[j] # NoTag
    BY DEF CreateElicitationResponse, Union, Kept, NoTag
  <1>3. Table(u)
    BY CreateElicitationResponseTable
  <1> HIDE DEF u
  <1>4. Fits(u, 4, d) => Fits(u, 2, d)
    BY <1>1, <1>2 DEF Fits
  <1>5. Pick(u, d) # 4
    <2> DEFINE n == Len(u.types)
    <2>1. n \in Nat /\ 1 < n /\ n = 4
      BY <1>1
    <2>2. d.tag = Absent /\ Fits(u, n, d) => \E j \in 1..n : j < n /\ Fits(u, j, d)
      BY <1>4, <2>1
    <2>3. (\A j \in 1..n : u.tags[j] # NoTag) /\ u.cases[n] = Kept
      BY <1>1, <1>2, <2>1
    <2>4. Pick(u, d) # n
      BY <1>1, <1>3, <2>1, <2>2, <2>3, NeverLast
    <2> QED
      BY <2>1, <2>4
  <1>6. Pick(u, d) \in 1..4
    BY <1>1, <1>3, ReadAs DEF u
  <1>7. Pick(u, d) \in {1, 2, 3}
    BY <1>5, <1>6
  <1>8. Tagged(u, Pick(u, d))
    BY <1>1, <1>7
  <1>9. u.types[Pick(u, d)].go = "struct"
    BY <1>1, <1>3, <1>6, <1>8 DEF Table, Variant, Sound, Tagged
  <1>10. Settled(u, Pick(u, d))
    BY <1>8, <1>9 DEF Settled
  <1> QED
    BY <1>10 DEF u

\* The keys of the property schemas: only a list of items has one it needs.
LEMMA PropertyKeys ==
    LET u == ElicitationPropertySchema IN
    /\ Len(u.types) = 6 /\ u.cases[6] = Kept /\ u.shapes[1] = {}
    /\ \A i \in 1..6 : u.tags[i] # NoTag /\ u.types[i].go = "struct"
    /\ \A i \in 1..5 : Tagged(u, i)
    /\ \A i \in 1..6 : \A k \in DOMAIN u.types[i].always :
          k = "items" /\ u.types[i].always[k] = "union"
    /\ \A i \in 1..6 : "items" \notin DOMAIN u.types[i].optional
    /\ DOMAIN u.types[1].always = {} /\ DOMAIN u.types[6].optional = {}
  <1> DEFINE u == ElicitationPropertySchema
             named == Meta @@ Strings({"description", "title"})
  <1>1. /\ Len(u.types) = 6 /\ u.cases[6] = Kept /\ u.shapes[1] = {}
        /\ \A i \in 1..6 : u.tags[i] # NoTag
        /\ \A i \in 1..5 : Tagged(u, i)
    BY DEF ElicitationPropertySchema, ElicitationPropertyTypes, ElicitationPropertyDecoding,
           ElicitationPropertyEncoding, Tagged, Kept, NoTag
  <1>2. /\ u.types[1] = Struct(None, named @@ Strings({"default", "format", "pattern"})
                                 @@ Of("int", {"maxLength", "minLength"})
                                 @@ Of("array", {"enum", "oneOf"}))
        /\ u.types[2] = Struct(None, named @@ Of("float", {"default", "maximum", "minimum"}))
        /\ u.types[3] = Struct(None, named @@ Of("int", {"default", "maximum", "minimum"}))
        /\ u.types[4] = Struct(None, named @@ Of("bool", {"default"}))
        /\ u.types[5] = Struct(Of("union", {"items"}),
                               named @@ Of("array", {"default"})
                                 @@ Of("int", {"maxItems", "minItems"}))
        /\ u.types[6] = Struct(None, None)
    BY DEF ElicitationPropertySchema, ElicitationPropertyTypes
  <1> DEFINE Keys(type) ==
                /\ type.go = "struct"
                /\ \A k \in DOMAIN type.always : k = "items" /\ type.always[k] = "union"
                /\ "items" \notin DOMAIN type.optional
  <1> HIDE DEF u
  <1>3. Keys(u.types[1]) /\ DOMAIN u.types[1].always = {}
    BY <1>2 DEF Struct, None, Strings, Of, Meta, @@
  <1>4. Keys(u.types[2]) /\ Keys(u.types[3]) /\ Keys(u.types[4])
    BY <1>2 DEF Struct, None, Strings, Of, Meta, @@
  <1>5. Keys(u.types[5])
    BY <1>2 DEF Struct, None, Strings, Of, Meta, @@
  <1>6. Keys(u.types[6]) /\ DOMAIN u.types[6].optional = {}
    BY <1>2 DEF Struct, None, Of
  <1>7. \A i \in 1..6 : Keys(u.types[i])
    <2> HIDE DEF Keys
    <2> QED
      BY <1>3, <1>4, <1>5, <1>6
  <1> QED
    BY <1>1, <1>3, <1>6, <1>7 DEF u

\* A property schema that is sent without a tag fits one that has a tag.
LEMMA PropertyFits ==
    ASSUME NEW d \in Documents(ElicitationPropertySchema), d.tag = Absent,
           Fits(ElicitationPropertySchema, 6, d)
    PROVE  \E j \in 1..6 : j < 6 /\ Fits(ElicitationPropertySchema, j, d)
  <1> DEFINE u == ElicitationPropertySchema
  <1>0. Table(u)
    BY ElicitationPropertySchemaTable
  <1>1. /\ Len(u.types) = 6 /\ u.cases[6] = Kept /\ u.shapes[1] = {}
        /\ \A i \in 1..6 : u.tags[i] # NoTag /\ u.types[i].go = "struct"
        /\ \A i \in 1..5 : Tagged(u, i)
        /\ \A i \in 1..6 : \A k \in DOMAIN u.types[i].always :
              k = "items" /\ u.types[i].always[k] = "union"
        /\ \A i \in 1..6 : "items" \notin DOMAIN u.types[i].optional
        /\ DOMAIN u.types[1].always = {} /\ DOMAIN u.types[6].optional = {}
    BY PropertyKeys
  <1> HIDE DEF u
  <1>2. Document(d)
    BY <1>0, SentDocument DEF u
  <1>3. Fits(u, 6, d) /\ d.tag # IllTyped
    BY DEF u, Absent, IllTyped
  <1>4. CASE d.json # "object"
    <2>1. Fits(u, 1, d)
      BY <1>1, <1>3, <1>4 DEF Fits
    <2> QED
      BY <2>1 DEF u
  <1>5. "items" \notin DOMAIN Fields(u.types[1])
    <2> DEFINE type == u.types[1]
    <2>1. DOMAIN Fields(type) = DOMAIN type.always \cup DOMAIN type.optional
      BY FieldKeys
    <2> QED
      BY <1>1, <2>1
  <1>6. ASSUME d.json = "object", \A k \in DOMAIN d.body : k = "items"
        PROVE  \E j \in 1..6 : j < 6 /\ Fits(u, j, d)
    <2>1. Fits(u, 1, d)
      BY <1>1, <1>3, <1>5, <1>6 DEF Fits
    <2> QED
      BY <2>1
  <1>7. ASSUME NEW i \in 1..6, NEW j \in 1..6, d.json = "object", d.body \in Bodies(u, i, j)
        PROVE  \E k \in 1..6 : k < 6 /\ Fits(u, k, d)
    <2> DEFINE type == u.types[i]
               always == type.always @@ u.types[j].always
               plain == Plain(always)
    <2>1. \A k \in DOMAIN always : k = "items" /\ always[k] = "union"
      BY <1>1 DEF @@
    <2>2. ASSUME NEW p \in plain
          PROVE  \A k \in DOMAIN p : k = "items" /\ p[k] = "object"
      <3>1. Natural("union") = "object"
        BY DEF Natural
      <3> HIDE DEF always
      <3> QED
        BY <2>1, <3>1 DEF Plain
    <2>3. d.body \in plain \cup Odd(plain) \cup Richer(plain, type.optional)
      BY <1>7 DEF Bodies
    <2>4. CASE d.body \in plain
      BY <1>6, <1>7, <2>2, <2>4
    <2>5. CASE d.body \in Odd(plain)
      <3> HIDE DEF plain
      <3>1. PICK p \in plain : \E k \in DOMAIN p, json \in JsonKinds :
                                  d.body = [p EXCEPT ![k] = json]
        BY <2>5 DEF Odd
      <3>2. DOMAIN d.body = DOMAIN p
        BY <3>1
      <3> QED
        BY <1>6, <1>7, <2>2, <3>2
    <2>6. CASE d.body \in Richer(plain, type.optional)
      <3> HIDE DEF plain
      <3>1. PICK p \in plain : \E o \in DOMAIN type.optional :
                                  d.body = p @@ Of(Natural(type.optional[o]), {o})
        BY <2>6 DEF Richer
      <3>2. PICK o \in DOMAIN type.optional :
                d.body = p @@ Of(Natural(type.optional[o]), {o})
        BY <3>1
      <3>3. i # 6 /\ o # "items"
        BY <1>1
      <3>4. /\ \A k \in DOMAIN d.body : k # o => k = "items" /\ d.body[k] = "object"
            /\ d.body[o] = Natural(type.optional[o])
        BY <2>2, <3>2, <3>3 DEF @@, Of
      <3>5. Sound(type, u.cases[i], u.drops)
        BY <1>0, <1>1 DEF Table, Variant
      <3> HIDE DEF type
      <3>6. /\ DOMAIN Fields(type) = DOMAIN type.always \cup DOMAIN type.optional
            /\ \A k \in DOMAIN type.always : Fields(type)[k] = type.always[k]
        BY <3>5, FieldTypes
      <3>7. Fields(type)[o] = type.optional[o] /\ type.optional[o] \in GoTypes
        <4>1. o \notin DOMAIN type.always /\ type.optional[o] \in GoTypes
          BY <3>5 DEF Sound
        <4> QED
          BY <4>1 DEF Fields, @@
      <3>8. ASSUME NEW k \in DOMAIN Fields(type), k \in DOMAIN d.body
            PROVE  Accepts(Fields(type)[k], d.body[k])
        <4>1. CASE k = o
          BY <4>1, <3>4, <3>7, NaturalFits
        <4>2. CASE k # o
          <5>1. k = "items" /\ d.body[k] = "object"
            BY <3>4, <3>8, <4>2
          <5>2. k \in DOMAIN type.always /\ type.always[k] = "union"
            BY <1>1, <3>6, <3>8, <5>1 DEF type
          <5> QED
            BY <3>6, <5>1, <5>2 DEF Accepts, Accepted
        <4> QED
          BY <4>1, <4>2
      <3>9. Fits(u, i, d)
        BY <1>1, <1>3, <1>7, <3>8 DEF Fits, type
      <3>10. i < 6
        BY <3>3
      <3> QED
        BY <3>9, <3>10
    <2> QED
      BY <2>3, <2>4, <2>5, <2>6
  <1>8. CASE d.json = "object"
    <2>1. \/ d \in {[json |-> json, tag |-> Absent, body |-> None] : json \in JsonKinds}
          \/ \E i, j \in 1..6 :
                d \in [json : {"object"}, tag : Tags(u), body : Bodies(u, i, j)]
      <3>1. \/ d \in {[json |-> json, tag |-> Absent, body |-> None] : json \in JsonKinds}
            \/ d \in UNION {UNION {[json : {"object"}, tag : Tags(u), body : Bodies(u, i, j)] :
                                      j \in 1..Len(u.types)} : i \in 1..Len(u.types)}
        BY DEF Documents, u
      <3> QED
        BY <1>1, <3>1
    <2>2. CASE d \in {[json |-> json, tag |-> Absent, body |-> None] : json \in JsonKinds}
      <3>1. d.body = None
        BY <2>2
      <3>2. DOMAIN d.body = {}
        BY <3>1 DEF None, Of
      <3> QED
        BY <1>6, <1>8, <3>2 DEF u
    <2>3. CASE \E i, j \in 1..6 :
                  d \in [json : {"object"}, tag : Tags(u), body : Bodies(u, i, j)]
      BY <1>7, <1>8, <2>3 DEF u
    <2> QED
      BY <2>1, <2>2, <2>3
  <1> QED
    BY <1>4, <1>8

-----------------------------------------------------------------------------
(* What is read of a document that is sent.                                *)

\* The fields of a nested tool call are texts, and only tool calls have them.
LEMMA NestedKinds ==
    ASSUME NEW u, NEW o, NEW n \in Nestings(u, o)
    PROVE  /\ \A k \in DOMAIN n : n[k] = "string"
           /\ o.tag = Absent => DOMAIN n = {}
  <1>1. CASE n = None
    BY <1>1 DEF None, Of
  <1>2. CASE n # None
    <2>1. /\ o.tag \in {"tool_call", "tool_call_update"}
          /\ n \in {[k \in keys |-> "string"] : keys \in SUBSET {"toolCallId", "title"}}
      BY <1>2 DEF Nestings
    <2>2. PICK keys \in SUBSET {"toolCallId", "title"} : n = [k \in keys |-> "string"]
      BY <2>1
    <2> QED
      BY <2>1, <2>2 DEF Absent
  <1> QED
    BY <1>1, <1>2

\* Flattening adds keys and changes none.
LEMMA FlatDocument ==
    ASSUME NEW o, Document(o), NEW n, \A k \in DOMAIN n : n[k] = "string",
           o.tag = Absent => DOMAIN n = {}
    PROVE  LET d == Flattened(o, n) IN
           /\ Document(d) /\ d.tag = o.tag /\ d.json = o.json
           /\ DOMAIN d.body = DOMAIN o.body \cup DOMAIN n
           /\ \A k \in DOMAIN o.body : d.body[k] = o.body[k]
  <1> DEFINE d == Flattened(o, n)
  <1>1. d = [json |-> o.json, tag |-> o.tag, body |-> o.body @@ n]
    BY DEF Flattened, Document
  <1>2. /\ DOMAIN (o.body @@ n) = DOMAIN o.body \cup DOMAIN n
        /\ \A k \in DOMAIN o.body : (o.body @@ n)[k] = o.body[k]
        /\ \A k \in DOMAIN n : k \notin DOMAIN o.body => (o.body @@ n)[k] = n[k]
    BY DEF @@
  <1>3. d.json = o.json /\ d.tag = o.tag /\ d.body = o.body @@ n
    BY <1>1
  <1>4. \A k \in DOMAIN d.body : d.body[k] \in JsonKinds
    BY <1>2, <1>3 DEF Document, JsonKinds
  <1>5. d = [json |-> d.json, tag |-> d.tag, body |-> d.body]
    BY <1>1, <1>3
  <1>6. d.json # "object" => d.tag = Absent /\ DOMAIN d.body = {}
    BY <1>2, <1>3 DEF Document
  <1>7. d.json \in JsonKinds
    BY <1>3 DEF Document
  <1> HIDE DEF d
  <1>8. Document(d)
    BY <1>4, <1>5, <1>6, <1>7 DEF Document
  <1> QED
    BY <1>2, <1>3, <1>8 DEF d

\* A document of scalars has neither a tag nor keys.
LEMMA ScalarDocument ==
    ASSUME NEW u, Table(u), ScalarTable(u), Len(u.types) > 0, NEW o \in Documents(u)
    PROVE  o.tag = Absent /\ DOMAIN o.body = {}
  <1>1. CASE o \in {[json |-> json, tag |-> Absent, body |-> None] : json \in JsonKinds}
    BY <1>1 DEF None, Of
  <1>2. ASSUME NEW i \in 1..Len(u.types), NEW j \in 1..Len(u.types),
               o \in [json : {"object"}, tag : Tags(u), body : Bodies(u, i, j)]
        PROVE  o.tag = Absent /\ DOMAIN o.body = {}
    <2>1. o.tag \in Tags(u) /\ o.body \in Bodies(u, i, j)
      BY <1>2
    <2>2. o.tag = Absent
      <3>1. {u.cases[k] : k \in 1..Len(u.cases)} = {NoTag}
        BY DEF Table, ScalarTable
      <3> QED
        BY <2>1, <3>1 DEF Tags
    <2>3. /\ DOMAIN u.types[i].always = {} /\ DOMAIN u.types[i].optional = {}
          /\ DOMAIN u.types[j].always = {}
      BY ScalarVariant
    <2> DEFINE always == u.types[i].always @@ u.types[j].always
               plain == Plain(always)
    <2>4. DOMAIN always = {}
      BY <2>3 DEF @@
    <2>5. \A p \in plain : DOMAIN p = {}
      <3> HIDE DEF always
      <3> QED
        BY <2>4 DEF Plain
    <2>6. o.body \in plain \cup Odd(plain) \cup Richer(plain, u.types[i].optional)
      BY <2>1 DEF Bodies
    <2> HIDE DEF plain
    <2>7. o.body \in plain
      BY <2>3, <2>5, <2>6 DEF Odd, Richer
    <2> QED
      BY <2>2, <2>5, <2>7
  <1>3. \/ o \in {[json |-> json, tag |-> Absent, body |-> None] : json \in JsonKinds}
        \/ \E i, j \in 1..Len(u.types) :
              o \in [json : {"object"}, tag : Tags(u), body : Bodies(u, i, j)]
    <2>1. \/ o \in {[json |-> json, tag |-> Absent, body |-> None] : json \in JsonKinds}
          \/ o \in UNION {UNION {[json : {"object"}, tag : Tags(u), body : Bodies(u, i, j)] :
                                    j \in 1..Len(u.types)} : i \in 1..Len(u.types)}
      BY DEF Documents
    <2> QED
      BY <2>1
  <1> QED
    BY <1>1, <1>2, <1>3

\* A property schema that is sent is read as one that has a tag.
LEMMA PropertySettled ==
    ASSUME NEW o \in Documents(ElicitationPropertySchema),
           NEW n \in Nestings(ElicitationPropertySchema, o),
           UnmarshalJSON(ElicitationPropertySchema, Flattened(o, n)) # Failed
    PROVE  Settled(ElicitationPropertySchema,
                   Pick(ElicitationPropertySchema, Flattened(o, n)))
  <1> DEFINE u == ElicitationPropertySchema
             d == Flattened(o, n)
             m == Len(u.types)
  <1>1. Table(u)
    BY ElicitationPropertySchemaTable
  <1>2. /\ m = 6 /\ u.cases[6] = Kept /\ u.shapes[1] = {}
        /\ \A i \in 1..6 : u.tags[i] # NoTag /\ u.types[i].go = "struct"
        /\ \A i \in 1..5 : Tagged(u, i)
    BY PropertyKeys
  <1>3. Document(o) /\ o.tag \notin {Kept, NoTag}
    BY <1>1, SentDocument
  <1>4. (\A k \in DOMAIN n : n[k] = "string") /\ (o.tag = Absent => DOMAIN n = {})
    BY NestedKinds
  <1>5. /\ Document(d) /\ d.tag = o.tag /\ d.json = o.json
        /\ DOMAIN d.body = DOMAIN o.body \cup DOMAIN n
        /\ \A k \in DOMAIN o.body : d.body[k] = o.body[k]
    BY <1>3, <1>4, FlatDocument
  <1>6. d.tag = Absent /\ Fits(u, m, d) => \E j \in 1..m : j < m /\ Fits(u, j, d)
    <2> SUFFICES ASSUME d.tag = Absent, Fits(u, 6, d)
                 PROVE  \E j \in 1..6 : j < 6 /\ Fits(u, j, d)
      BY <1>2
    <2>1. DOMAIN d.body = DOMAIN o.body /\ o.tag = Absent
      BY <1>4, <1>5
    <2> HIDE DEF d
    <2>2. \A j : Fits(u, j, o) <=> Fits(u, j, d)
      <3> HIDE DEF u
      <3> QED
        BY <1>5, <2>1 DEF Fits
    <2>3. Fits(u, 6, o)
      BY <2>2
    <2>4. PICK j \in 1..6 : j < 6 /\ Fits(u, j, o)
      BY <2>1, <2>3, PropertyFits
    <2> QED
      BY <2>2, <2>4
  <1> HIDE DEF u, d
  <1>7. Pick(u, d) # 6
    <2>1. m \in Nat /\ 1 < m
      BY <1>2
    <2>2. (\A j \in 1..m : u.tags[j] # NoTag) /\ u.cases[m] = Kept
      BY <1>2
    <2>3. d.tag \notin {Kept, NoTag}
      BY <1>3, <1>5
    <2>4. m = Len(u.types) /\ u.shapes[1] = {} /\ Document(d)
      BY <1>2, <1>5
    <2> HIDE DEF m
    <2>5. Pick(u, d) # m
      BY <1>1, <1>6, <2>1, <2>2, <2>3, <2>4, NeverLast
    <2> QED
      BY <1>2, <2>5
  <1>8. Pick(u, d) \in 1..6
    BY <1>1, <1>2, ReadAs DEF u, d
  <1>9. Pick(u, d) \in 1..5
    BY <1>7, <1>8
  <1>10. Settled(u, Pick(u, d))
    BY <1>2, <1>8, <1>9 DEF Settled
  <1> QED
    BY <1>10 DEF u, d

\* The unions, by what makes reading and writing settle.
LEMMA UnionKinds ==
    ASSUME NEW x \in DOMAIN Unions
    PROVE  LET u == Unions[x] IN
           \/ u = CreateElicitationResponse
           \/ u = ElicitationPropertySchema
           \/ ScalarTable(u) /\ Len(u.types) > 0
           \/ \A i \in 1..Len(u.types) : Settled(u, i)
  <1>1. /\ ScalarTable(ElicitationContentValue) /\ Len(ElicitationContentValue.types) > 0
        /\ ScalarTable(ErrorCode) /\ Len(ErrorCode.types) > 0
        /\ ScalarTable(RequestId) /\ Len(RequestId.types) > 0
    <2>1. /\ Len(ElicitationContentValue.types) > 0
          /\ Len(ErrorCode.types) > 0 /\ Len(RequestId.types) > 0
      BY DEF ElicitationContentValue, ErrorCode, RequestId, Scalars, Untagged, Union
    <2> QED
      BY <2>1, ScalarUnions
  <1> DEFINE Goal(u) == \/ u = CreateElicitationResponse
                        \/ u = ElicitationPropertySchema
                        \/ ScalarTable(u) /\ Len(u.types) > 0
                        \/ \A i \in 1..Len(u.types) : Settled(u, i)
  <1>2. /\ Goal(CreateElicitationResponse) /\ Goal(ElicitationPropertySchema)
        /\ Goal(ElicitationContentValue) /\ Goal(ErrorCode) /\ Goal(RequestId)
    BY <1>1, Zenon
  <1>3. /\ Goal(ContentBlock) /\ Goal(RequestPermissionOutcome) /\ Goal(SessionConfigOption)
        /\ Goal(SessionUpdate) /\ Goal(ToolCallContent)
    BY TaggedUnions, Zenon
  <1>4. /\ Goal(AgentResponse) /\ Goal(ClientResponse) /\ Goal(AuthMethod)
        /\ Goal(AvailableCommandInput) /\ Goal(CreateElicitationRequest)
        /\ Goal(ElicitationFormMode)
    BY AgentResponseSettled, ClientResponseSettled, AuthMethodSettled, Zenon,
       AvailableCommandInputSettled, CreateElicitationRequestSettled,
       ElicitationFormModeSettled
  <1>5. /\ Goal(ElicitationUrlMode) /\ Goal(EmbeddedResourceResource) /\ Goal(McpServer)
        /\ Goal(MultiSelectItems) /\ Goal(SetSessionConfigOptionRequest)
    BY ElicitationUrlModeSettled, EmbeddedResourceResourceSettled, McpServerSettled, Zenon,
       MultiSelectItemsSettled, SetSessionConfigOptionRequestSettled
  <1> HIDE DEF Goal
  <1>6. Goal(Unions[x])
    BY <1>2, <1>3, <1>4, <1>5, UnionNames, UnionValues
  <1> QED
    BY <1>6 DEF Goal

\* Once it was read and written, a document is read, can be written, and stays.
LEMMA RoundTrip ==
    ASSUME NEW x \in DOMAIN Unions, NEW o \in Documents(Unions[x]),
           NEW n \in Nestings(Unions[x], o),
           UnmarshalJSON(Unions[x], Flattened(o, n)) # Failed,
           Writable(Unions[x], UnmarshalJSON(Unions[x], Flattened(o, n)))
    PROVE  LET e == MarshalJSON(Unions[x], UnmarshalJSON(Unions[x], Flattened(o, n)))
           IN Document(e) /\ Stable(Unions[x], e)
  <1> DEFINE u == Unions[x]
             d == Flattened(o, n)
             Goal == LET e == MarshalJSON(u, UnmarshalJSON(u, d))
                     IN Document(e) /\ Stable(u, e)
  <1> SUFFICES Goal
    OBVIOUS
  <1>1. Table(u)
    BY EveryTable
  <1>2. Document(o) /\ o.tag \notin {Kept, NoTag}
    BY <1>1, SentDocument
  <1>3. (\A k \in DOMAIN n : n[k] = "string") /\ (o.tag = Absent => DOMAIN n = {})
    BY NestedKinds
  <1>4. /\ Document(d) /\ d.tag = o.tag
        /\ DOMAIN d.body = DOMAIN o.body \cup DOMAIN n
    BY <1>2, <1>3, FlatDocument
  <1>5. ASSUME Settled(u, Pick(u, d))
        PROVE  Goal
    <2> HIDE DEF u, d
    <2>1. UnmarshalJSON(u, d) # Failed /\ Writable(u, UnmarshalJSON(u, d))
      BY DEF u, d
    <2> QED
      BY <1>1, <1>2, <1>4, <1>5, <2>1, SettledStable
  <1>6. CASE u = CreateElicitationResponse
    <2>1. Settled(u, Pick(u, d))
      <3> HIDE DEF d
      <3>1. UnmarshalJSON(CreateElicitationResponse, d) # Failed
        BY <1>6 DEF d
      <3>2. Settled(CreateElicitationResponse, Pick(CreateElicitationResponse, d))
        BY <1>2, <1>4, <3>1, ElicitationResponseSettled
      <3> QED
        BY <1>6, <3>2
    <2> QED
      BY <1>5, <2>1
  <1>7. CASE u = ElicitationPropertySchema
    <2>1. Settled(u, Pick(u, d))
      BY <1>7, PropertySettled
    <2> QED
      BY <1>5, <2>1
  <1>8. CASE ScalarTable(u) /\ Len(u.types) > 0
    <2>1. o.tag = Absent /\ DOMAIN o.body = {}
      BY <1>1, <1>8, ScalarDocument
    <2>2. d.tag = Absent /\ DOMAIN d.body = {}
      BY <1>3, <1>4, <2>1
    <2> HIDE DEF u, d
    <2>3. UnmarshalJSON(u, d) # Failed
      BY DEF u, d
    <2>4. ScalarTable(u)
      BY <1>8
    <2> QED
      BY <1>1, <1>4, <2>2, <2>3, <2>4, ScalarStable
  <1>9. CASE \A i \in 1..Len(u.types) : Settled(u, i)
    <2>1. Pick(u, d) \in 1..Len(u.types)
      <3> HIDE DEF u, d
      <3>1. UnmarshalJSON(u, d) # Failed
        BY DEF u, d
      <3> QED
        BY <1>1, <3>1, ReadAs
    <2> QED
      BY <1>5, <1>9, <2>1
  <1> HIDE DEF Goal
  <1>10. \/ u = CreateElicitationResponse
         \/ u = ElicitationPropertySchema
         \/ ScalarTable(u) /\ Len(u.types) > 0
         \/ \A i \in 1..Len(u.types) : Settled(u, i)
    BY UnionKinds, Zenon
  <1> QED
    BY <1>6, <1>7, <1>8, <1>9, <1>10, Zenon

-----------------------------------------------------------------------------
(* A document on its way.                                                  *)

\* What d still has of o: where the tag of o is a variant's own, the tag and
\* the variant's required keys.
Keeps(u, o, d) ==
    o.json = "object" =>
        \A i \in 1..Len(u.types) : u.cases[i] = o.tag =>
            /\ d.json = "object" /\ d.tag = o.tag
            /\ \A k \in DOMAIN u.types[i].always : k \in DOMAIN o.body =>
                  k \in DOMAIN d.body /\ o.body[k] \in {d.body[k], "null", "whole"}

\* The document o, read as x, after h hops: d and the fields n nested in it.
\* Before the first hop it is the one that was sent, after it it has settled.
Underway(x, o, d, n, h) ==
    /\ Document(d)
    /\ o.tag \notin {Kept, NoTag} /\ d.tag \notin {Kept, NoTag}
    /\ \A k \in DOMAIN n : n[k] = "string"
    /\ d.tag = Absent => DOMAIN n = {}
    /\ Keeps(Unions[x], o, d)
    /\ x = "RequestPermissionOutcome" /\ o.tag # "selected" => d.tag # "selected"
    /\ h = 0 => d \in Documents(Unions[x]) /\ n \in Nestings(Unions[x], d)
    /\ h > 0 => n = None /\ Stable(Unions[x], d)

\* Where the document is, and what of it was read.
Journey ==
    /\ union \in DOMAIN Unions
    /\ hops \in 0..MaxHops
    /\ stage \in {"idle", "sent", "read", "refused", "unsupported", "unwritable"}
    /\ Document(doc)
    /\ value = Failed \/ value.variant \in 1..Len(U.types)
    /\ stage = "idle" => hops = 0 /\ value = Failed
    /\ stage \in {"sent", "read"} => Underway(union, origin, doc, nested, hops)
    /\ stage = "read" => value # Failed /\ value = UnmarshalJSON(U, Flattened(doc, nested))

\* Flattening keeps what there is.
LEMMA KeepsFlat ==
    ASSUME NEW u, NEW o, NEW d, Document(d), Keeps(u, o, d),
           NEW n, \A k \in DOMAIN n : n[k] = "string", d.tag = Absent => DOMAIN n = {}
    PROVE  Keeps(u, o, Flattened(d, n))
  <1> DEFINE f == Flattened(d, n)
  <1>1. /\ f.tag = d.tag /\ f.json = d.json
        /\ DOMAIN f.body = DOMAIN d.body \cup DOMAIN n
        /\ \A k \in DOMAIN d.body : f.body[k] = d.body[k]
    BY FlatDocument
  <1> HIDE DEF f
  <1>2. Keeps(u, o, f)
    BY <1>1 DEF Keeps
  <1> QED
    BY <1>2 DEF f

\* What reading keeps: the variant of the tag, and the keys it requires.
LEMMA KeepsRead ==
    ASSUME NEW u, Table(u), NEW o, o.tag \notin {Kept, NoTag}, o.json = "object",
           NEW d, Document(d), Keeps(u, o, d), UnmarshalJSON(u, d) # Failed,
           NEW i \in 1..Len(u.types), u.cases[i] = o.tag
    PROVE  LET v == UnmarshalJSON(u, d) IN
           /\ v.variant = i /\ v.json = "object"
           /\ \A k \in DOMAIN u.types[i].always : k \in DOMAIN o.body =>
                 k \in DOMAIN v.set /\ o.body[k] \in {v.set[k], "null", "whole"}
  <1> DEFINE v == UnmarshalJSON(u, d)
             type == u.types[i]
  <1>1. Tagged(u, i)
    BY DEF Tagged
  <1>2. d.json = "object" /\ d.tag = o.tag
    BY DEF Keeps
  <1>3. Pick(u, d) = i
    BY <1>1, <1>2, TagPicks, ReadAs
  <1>4. v = Read(u, i, d)
    BY <1>3, ReadAs
  <1>5. Sound(type, u.cases[i], u.drops) /\ type.go = "struct"
    BY <1>1 DEF Table, Variant, Sound, Tagged
  <1>6. /\ v.variant = i /\ v.json = Held(type.go, d.json)
        /\ \A k : k \in DOMAIN v.set <=>
              /\ k \in DOMAIN Fields(type) /\ k \in DOMAIN d.body
              /\ d.body[k] = "null" => k \notin DOMAIN type.optional /\ Fields(type)[k] # "error"
        /\ \A k \in DOMAIN v.set : v.set[k] = Held(Fields(type)[k], d.body[k])
    BY <1>4, ReadValue
  <1>7. v.json = "object"
    BY <1>2, <1>5, <1>6 DEF Held
  <1>8. /\ DOMAIN Fields(type) = DOMAIN type.always \cup DOMAIN type.optional
        /\ \A k \in DOMAIN type.always : Fields(type)[k] = type.always[k]
    <2> HIDE DEF type
    <2> QED
      BY <1>5, FieldTypes
  <1>9. ASSUME NEW k \in DOMAIN type.always, k \in DOMAIN o.body
        PROVE  k \in DOMAIN v.set /\ o.body[k] \in {v.set[k], "null", "whole"}
    <2>1. k \in DOMAIN d.body /\ o.body[k] \in {d.body[k], "null", "whole"}
      BY <1>9 DEF Keeps
    <2>2. /\ k \notin DOMAIN type.optional
          /\ type.always[k] \notin {"id", "error", "empty"}
      BY <1>1, <1>5 DEF Sound, Tagged
    <2>3. k \in DOMAIN v.set /\ v.set[k] = Held(type.always[k], d.body[k])
      BY <1>6, <1>8, <2>1, <2>2
    <2>4. d.body[k] \in {v.set[k], "null", "whole"}
      BY <2>2, <2>3, HeldKeeps
    <2> QED
      BY <2>1, <2>3, <2>4
  <1> HIDE DEF v
  <1>10. /\ v.variant = i /\ v.json = "object"
         /\ \A k \in DOMAIN type.always : k \in DOMAIN o.body =>
               k \in DOMAIN v.set /\ o.body[k] \in {v.set[k], "null", "whole"}
    BY <1>6, <1>7, <1>9
  <1> QED
    BY <1>10 DEF v

\* What was read is written with all of it.
LEMMA KeepsWritten ==
    ASSUME NEW u, Table(u), NEW o, o.tag \notin {Kept, NoTag},
           NEW d, Document(d), Keeps(u, o, d), UnmarshalJSON(u, d) # Failed
    PROVE  Keeps(u, o, MarshalJSON(u, UnmarshalJSON(u, d)))
  <1> DEFINE v == UnmarshalJSON(u, d)
             e == MarshalJSON(u, v)
  <1>1. ASSUME o.json = "object", NEW i \in 1..Len(u.types), u.cases[i] = o.tag
        PROVE  /\ e.json = "object" /\ e.tag = o.tag
               /\ \A k \in DOMAIN u.types[i].always : k \in DOMAIN o.body =>
                     k \in DOMAIN e.body /\ o.body[k] \in {e.body[k], "null", "whole"}
    <2>1. /\ v.variant = i /\ v.json = "object"
          /\ \A k \in DOMAIN u.types[i].always : k \in DOMAIN o.body =>
                k \in DOMAIN v.set /\ o.body[k] \in {v.set[k], "null", "whole"}
      BY <1>1, KeepsRead
    <2>2. /\ u.tags[i] = u.cases[i]
          /\ \A k \in DOMAIN u.types[i].always : k \notin u.drops
      BY DEF Table, Variant, Sound
    <2> HIDE DEF v
    <2>3. u.tags[i] \notin {Kept, NoTag} /\ u.tags[v.variant] = o.tag
      BY <1>1, <2>1, <2>2
    <2>4. /\ e = [json |-> v.json, tag |-> e.tag, body |-> e.body]
          /\ u.tags[v.variant] \notin {Kept, NoTag} => e.tag = u.tags[v.variant]
          /\ DOMAIN e.body = (DOMAIN u.types[v.variant].always \cup DOMAIN v.set) \ u.drops
          /\ \A k \in DOMAIN e.body :
                e.body[k] = IF k \in DOMAIN v.set THEN v.set[k]
                            ELSE Held(u.types[v.variant].always[k], "null")
      BY WrittenValue
    <2> HIDE DEF e
    <2>5. e.json = "object" /\ e.tag = o.tag
      BY <2>1, <2>3, <2>4
    <2> QED
      BY <2>1, <2>2, <2>4, <2>5
  <1> HIDE DEF e
  <1>2. Keeps(u, o, e)
    BY <1>1 DEF Keeps
  <1> QED
    BY <1>2 DEF e

\* An answer without the tag of a selection is not read as one.
LEMMA UnselectedRead ==
    ASSUME NEW d, Document(d), d.tag # "selected",
           UnmarshalJSON(RequestPermissionOutcome, d) # Failed
    PROVE  UnmarshalJSON(RequestPermissionOutcome, d).variant = 1
  <1> DEFINE u == RequestPermissionOutcome
  <1> SUFFICES UnmarshalJSON(u, d).variant = 1
    OBVIOUS
  <1>1. /\ Len(u.types) = 2 /\ u.cases[1] = "cancelled" /\ u.cases[2] = "selected"
        /\ u.tags[1] = "cancelled" /\ u.tags[2] = "selected"
        /\ u.types[1].go = "struct" /\ u.types[2].go = "struct" /\ u.shapes[1] = {}
    BY DEF RequestPermissionOutcome, Union, Struct
  <1>2. DOMAIN u.types[1].always = {} /\ DOMAIN u.types[1].optional = {}
    BY DEF RequestPermissionOutcome, Union, Struct, None, Of
  <1>3. Table(u)
    BY RequestPermissionOutcomeTable
  <1>4. UnmarshalJSON(u, d) # Failed
    OBVIOUS
  <1> DEFINE one == 1
  <1> HIDE DEF u, one
  <1>5. /\ Pick(u, d) \in 1..Len(u.types) /\ UnmarshalJSON(u, d).variant = Pick(u, d)
        /\ Fits(u, Pick(u, d), d)
    BY <1>3, <1>4, ReadAs
  <1>6. one \in 1..Len(u.types) /\ Len(u.types) \in Nat
    BY <1>1 DEF one
  <1>7. Tagged(u, one)
    BY <1>1 DEF Tagged, Kept, NoTag, one
  <1>8. CASE d.tag = "cancelled"
    <2>1. u.cases[one] = d.tag
      BY <1>1, <1>8 DEF one
    <2>2. Pick(u, d) \in {0, one}
      BY <1>3, <1>6, <1>7, <2>1, TagPicks
    <2> QED
      BY <1>1, <1>5, <2>2 DEF one
  <1>9. ASSUME d.tag # "cancelled", NEW j \in 1..Len(u.types)
        PROVE  u.cases[j] # d.tag
    <2>1. j = 1 \/ j = 2
      BY <1>1
    <2> QED
      BY <1>1, <1>9, <2>1
  <1>10. CASE d.tag \notin {"cancelled", Absent}
    <2>1. d.json = "object"
      BY <1>10 DEF Document
    <2>2. \A j \in 1..Len(u.types) : u.cases[j] # d.tag
      BY <1>9, <1>10
    <2>3. Shaped(u, one, d)
      BY <1>1, <1>10 DEF Shaped, one
    <2>4. \A j \in 1..Len(u.types) : Shaped(u, j, d) => one <= j
      BY <1>6 DEF one
    <2>5. Pick(u, d) = IF Fits(u, one, d) THEN one ELSE 0
      BY <1>6, <2>1, <2>2, <2>3, <2>4, PickByShape
    <2> QED
      BY <1>1, <1>5, <2>5 DEF one
  <1>11. CASE d.tag = Absent
    <2>1. \A j \in 1..Len(u.types) : u.cases[j] # d.tag
      BY <1>9, <1>11 DEF Absent
    <2>2. \A j \in 1..Len(u.types) : ~Shaped(u, j, d)
      <3> SUFFICES ASSUME NEW j \in 1..Len(u.types) PROVE ~Shaped(u, j, d)
        OBVIOUS
      <3>1. j = 1 \/ j = 2
        BY <1>1
      <3>2. u.tags[j] # NoTag
        BY <1>1, <3>1 DEF NoTag
      <3> QED
        BY <1>11, <3>2 DEF Shaped
    <2>3. DOMAIN Fields(u.types[one]) = {}
      <3> DEFINE type == u.types[one]
      <3>1. DOMAIN type.always = {} /\ DOMAIN type.optional = {}
        BY <1>2 DEF one
      <3> HIDE DEF type
      <3>2. DOMAIN Fields(type) = {}
        BY <3>1, FieldKeys
      <3> QED
        BY <3>2 DEF type
    <2>4. Fits(u, one, d)
      <3>1. u.types[Pick(u, d)].go = "struct"
        <4>1. Pick(u, d) = 1 \/ Pick(u, d) = 2
          BY <1>1, <1>5
        <4> QED
          BY <1>1, <4>1
      <3>2. u.types[one].go = "struct"
        BY <1>1 DEF one
      <3>3. d.json # "object" => Accepts("struct", d.json)
        BY <1>5, <3>1 DEF Fits
      <3> QED
        BY <1>11, <2>3, <3>2, <3>3 DEF Fits, Absent, IllTyped
    <2>5. Pick(u, d) \in 1..Len(u.types) /\ Pick(u, d) <= one
      BY <1>6, <2>1, <2>2, <2>4, PickBefore
    <2> QED
      BY <1>1, <1>5, <2>5 DEF one
  <1> QED
    BY <1>8, <1>10, <1>11

\* A document that is stable has nothing to flatten.
LEMMA StableFlat ==
    ASSUME NEW u, NEW d, Document(d), Stable(u, d)
    PROVE  Flattened(d, None) = d
  <1> DEFINE v == UnmarshalJSON(u, d)
  <1>1. d = MarshalJSON(u, v)
    BY DEF Stable
  <1>2. d.body = [k \in DOMAIN d.body |-> d.body[k]]
    <2> HIDE DEF v
    <2> QED
      BY <1>1, WrittenValue
  <1>3. DOMAIN None = {}
    BY DEF None, Of
  <1>4. d.body @@ None = [k \in DOMAIN d.body |-> d.body[k]]
    BY <1>3 DEF @@
  <1>5. d.body @@ None = d.body
    BY <1>2, <1>4
  <1>6. Flattened(d, None) = [json |-> d.json, tag |-> d.tag, body |-> d.body @@ None]
    BY DEF Flattened, Document
  <1> QED
    BY <1>5, <1>6 DEF Document

\* A document that is sent is under way.
LEMMA Sent ==
    ASSUME NEW x \in DOMAIN Unions, NEW d \in Documents(Unions[x]),
           NEW n \in Nestings(Unions[x], d)
    PROVE  Underway(x, d, d, n, 0)
  <1> DEFINE u == Unions[x]
  <1>1. Table(u)
    BY EveryTable
  <1> HIDE DEF u
  <1>2. d \in Documents(u) /\ n \in Nestings(u, d)
    BY DEF u
  <1>3. Document(d) /\ d.tag \notin {Kept, NoTag}
    BY <1>1, <1>2, SentDocument
  <1>4. (\A k \in DOMAIN n : n[k] = "string") /\ (d.tag = Absent => DOMAIN n = {})
    BY <1>2, NestedKinds
  <1>5. Keeps(u, d, d)
    BY DEF Keeps
  <1>6. Keeps(Unions[x], d, d)
    BY <1>5 DEF u
  <1> QED
    BY <1>3, <1>4, <1>6 DEF Underway

\* A document that is passed on is under way again; after the first hop it
\* does not change, and it can be written.
LEMMA Passed ==
    ASSUME NEW x \in DOMAIN Unions, NEW o, NEW d, NEW n, NEW h \in Nat,
           Underway(x, o, d, n, h),
           UnmarshalJSON(Unions[x], Flattened(d, n)) # Failed
    PROVE  LET v == UnmarshalJSON(Unions[x], Flattened(d, n))
               e == MarshalJSON(Unions[x], v)
           IN /\ Writable(Unions[x], v) => Underway(x, o, e, None, h + 1)
              /\ h > 0 => Writable(Unions[x], v) /\ e = d
  <1> DEFINE u == Unions[x]
             f == Flattened(d, n)
             v == UnmarshalJSON(u, f)
             e == MarshalJSON(u, v)
  <1>1. Table(u)
    BY EveryTable
  <1>2. Document(d) /\ (\A k \in DOMAIN n : n[k] = "string") /\ (d.tag = Absent => DOMAIN n = {})
    BY DEF Underway
  <1>3. Document(f) /\ f.tag = d.tag
    BY <1>2, FlatDocument
  <1>4. Keeps(u, o, f)
    <2>1. Keeps(u, o, d)
      BY DEF Underway
    <2> HIDE DEF u
    <2> QED
      BY <1>2, <2>1, KeepsFlat
  <1>5. h > 0 => Writable(u, v) /\ e = d
    <2> SUFFICES ASSUME h > 0 PROVE Writable(u, v) /\ e = d
      BY Zenon
    <2>1. n = None /\ Stable(u, d)
      BY DEF Underway
    <2> HIDE DEF u
    <2>2. Flattened(d, None) = d
      BY <1>2, <2>1, StableFlat
    <2>3. f = d
      BY <2>1, <2>2
    <2> QED
      BY <2>1, <2>3 DEF Stable
  <1>6. Writable(u, v) => Document(e) /\ Stable(u, e)
    <2>1. CASE h = 0
      <3>1. d \in Documents(u) /\ n \in Nestings(u, d)
        BY <2>1 DEF Underway
      <3> QED
        BY <3>1, RoundTrip
    <2>2. CASE h > 0
      <3>1. Stable(u, d)
        BY <2>2 DEF Underway
      <3> HIDE DEF u, e
      <3> QED
        BY <1>2, <1>5, <2>2, <3>1
    <2> QED
      BY <2>1, <2>2
  <1>7. Keeps(u, o, e)
    <2>1. o.tag \notin {Kept, NoTag} /\ v # Failed
      BY DEF Underway
    <2> HIDE DEF u, f
    <2> QED
      BY <1>1, <1>3, <1>4, <2>1, KeepsWritten
  <1>8. e.tag \notin {Kept, NoTag}
    <2>1. f.tag \notin {Kept, NoTag} /\ v # Failed
      BY <1>3 DEF Underway
    <2> HIDE DEF u, f
    <2>2. Pick(u, f) \in 1..Len(u.types) /\ v = Read(u, Pick(u, f), f) /\ v.variant = Pick(u, f)
      BY <1>1, <2>1, ReadAs
    <2>3. v.tag = f.tag
      BY <2>2 DEF Read
    <2> HIDE DEF v
    <2> DEFINE tag == u.tags[v.variant]
    <2>4. /\ tag = NoTag => e.tag = Absent
          /\ tag = Kept => e.tag = IF v.tag = Absent THEN Unknown ELSE v.tag
          /\ tag \notin {Kept, NoTag} => e.tag = tag
      BY WrittenValue
    <2> HIDE DEF tag, e
    <2> QED
      BY <2>1, <2>3, <2>4 DEF Kept, NoTag, Absent, Unknown
  <1>9. x = "RequestPermissionOutcome" /\ o.tag # "selected" => e.tag # "selected"
    <2> SUFFICES ASSUME x = "RequestPermissionOutcome", o.tag # "selected"
                 PROVE  e.tag # "selected"
      BY Zenon
    <2>1. d.tag # "selected"
      BY DEF Underway
    <2>2. u = RequestPermissionOutcome
      BY UnionValues
    <2>3. v # Failed
      OBVIOUS
    <2> HIDE DEF u, f
    <2>4. v.variant = 1
      BY <1>3, <2>1, <2>2, <2>3, UnselectedRead
    <2>5. u.tags[1] = "cancelled"
      BY <2>2 DEF RequestPermissionOutcome, Union
    <2> HIDE DEF v
    <2>6. u.tags[v.variant] \notin {Kept, NoTag} => e.tag = u.tags[v.variant]
      BY WrittenValue
    <2> HIDE DEF e
    <2> QED
      BY <2>4, <2>5, <2>6 DEF Kept, NoTag
  <1>10. DOMAIN None = {}
    BY DEF None, Of
  <1>11. o.tag \notin {Kept, NoTag}
    BY DEF Underway
  <1> HIDE DEF v, e
  <1>12. Writable(u, v) => Underway(x, o, e, None, h + 1)
    <2> SUFFICES ASSUME Writable(u, v) PROVE Underway(x, o, e, None, h + 1)
      BY Zenon
    <2>1. h + 1 # 0 /\ h + 1 > 0
      OBVIOUS
    <2>2. Document(e) /\ Stable(Unions[x], e) /\ Keeps(Unions[x], o, e)
      BY <1>6, <1>7
    <2> DEFINE m == h + 1
    <2> HIDE DEF u, m
    <2>3. Underway(x, o, e, None, m)
      BY <1>8, <1>9, <1>10, <1>11, <2>1, <2>2 DEF Underway, m
    <2> QED
      BY <2>3 DEF m
  <1> QED
    BY <1>5, <1>12 DEF v, e

\* Every step keeps the document's journey.
LEMMA JourneyStep ==
    ASSUME Handshake, Journey, [Next]_vars
    PROVE  Journey'
  <1> USE DEF connVars, docVars
  <1>1. CASE UNCHANGED docVars
    BY <1>1 DEF Journey, U
  <1>2. CASE Launch \/ InitializeFails \/ FinishStart \/ Close \/ UNCHANGED vars
    <2>1. UNCHANGED docVars
      BY <1>2 DEF Launch, InitializeFails, FinishStart, Close, vars
    <2> QED
      BY <1>1, <2>1
  <1>3. ASSUME NEW r \in Replies, AgentReplies(r)
        PROVE  Journey'
    <2>1. UNCHANGED docVars
      BY <1>3 DEF AgentReplies
    <2> QED
      BY <1>1, <2>1
  <1>4. ASSUME stage = "idle", NEW u \in DOMAIN Unions,
               NEW d \in Documents(Unions[u]), Send(u, d)
        PROVE  Journey'
    <2>1. /\ union' = u /\ doc' = d /\ origin' = d /\ stage' = "sent"
          /\ nested' \in Nestings(Unions[u], d) /\ value' = value /\ hops' = hops
      BY <1>4 DEF Send
    <2>2. hops = 0 /\ value = Failed /\ hops \in 0..MaxHops
      BY <1>4 DEF Journey
    <2> DEFINE n == nested'
    <2>3. n \in Nestings(Unions[u], d)
      BY <2>1
    <2> HIDE DEF n
    <2>4. Underway(u, d, d, n, 0)
      BY <2>3, Sent
    <2>5. Document(d)
      BY <2>4 DEF Underway
    <2>6. Underway(union', origin', doc', nested', hops')
      BY <2>1, <2>2, <2>4 DEF n
    <2> QED
      BY <2>1, <2>2, <2>5, <2>6 DEF Journey
  <1>5. CASE Unsupported
    BY <1>5 DEF Unsupported, Journey, U
  <1>6. CASE Receive
    <2> DEFINE v == UnmarshalJSON(Unions[union], Flattened(doc, nested))
    <2>1. /\ UNCHANGED <<union, doc, nested, origin, hops>> /\ stage = "sent"
          /\ \/ stage' = "read" /\ value' = v /\ v # Failed
             \/ stage' = "refused" /\ value' = Failed
      BY <1>6 DEF Receive
    <2>2. union \in DOMAIN Unions
      BY DEF Journey
    <2>3. v # Failed => v.variant \in 1..Len(Unions[union].types)
      <3> DEFINE u == Unions[union]
                 d == Flattened(doc, nested)
      <3>1. Table(u)
        BY <2>2, EveryTable
      <3> HIDE DEF u, d
      <3>2. UnmarshalJSON(u, d) # Failed => UnmarshalJSON(u, d).variant \in 1..Len(u.types)
        BY <3>1, ReadAs
      <3> QED
        BY <3>2 DEF u, d
    <2>4. Underway(union', origin', doc', nested', hops')
      BY <2>1 DEF Journey
    <2>5. v = UnmarshalJSON(U', Flattened(doc', nested'))
      BY <2>1 DEF U
    <2> HIDE DEF v
    <2>6. U' = Unions[union]
      BY <2>1 DEF U
    <2>7. value' = Failed \/ value'.variant \in 1..Len(U'.types)
      BY <2>1, <2>3, <2>6
    <2> QED
      BY <2>1, <2>4, <2>5, <2>7 DEF Journey
  <1>7. CASE PassOn
    <2> DEFINE u == Unions[union]
               e == MarshalJSON(u, value)
    <2>1. /\ stage = "read" /\ hops < MaxHops /\ nested' = None
          /\ UNCHANGED <<union, origin, value>>
          /\ \/ Writable(u, value) /\ doc' = e /\ stage' = "sent" /\ hops' = hops + 1
             \/ stage' = "unwritable" /\ UNCHANGED <<doc, hops>>
      BY <1>7 DEF PassOn
    <2>2. /\ Underway(union, origin, doc, nested, hops) /\ union \in DOMAIN Unions
          /\ hops \in Nat /\ value # Failed
          /\ value = UnmarshalJSON(Unions[union], Flattened(doc, nested))
      BY <2>1 DEF Journey, U
    <2>3. Writable(u, value) => Underway(union, origin, e, None, hops + 1)
      BY <2>2, Passed
    <2>4. U' = U
      BY <2>1 DEF U
    <2>5. value' = Failed \/ value'.variant \in 1..Len(U'.types)
      BY <2>1, <2>4 DEF Journey
    <2> HIDE DEF e, u
    <2>6. CASE Writable(u, value) /\ doc' = e /\ stage' = "sent" /\ hops' = hops + 1
      <3>1. Underway(union', origin', doc', nested', hops')
        BY <2>1, <2>3, <2>6
      <3>2. Document(doc')
        BY <3>1 DEF Underway
      <3>3. hops' \in 0..MaxHops
        BY <2>1, <2>2, <2>6, MaxHopsAssumption
      <3>4. union' \in DOMAIN Unions
        BY <2>1, <2>2
      <3> QED
        BY <2>5, <2>6, <3>1, <3>2, <3>3, <3>4 DEF Journey
    <2>7. CASE stage' = "unwritable" /\ UNCHANGED <<doc, hops>>
      <3>1. union' \in DOMAIN Unions
        BY <2>1, <2>2
      <3> QED
        BY <2>5, <2>7, <3>1 DEF Journey
    <2> QED
      BY <2>1, <2>6, <2>7
  <1> QED
    BY <1>2, <1>3, <1>4, <1>5, <1>6, <1>7 DEF Next

\* The journey is one at every step, for every bound on the hops.
LEMMA JourneyInvariance == Spec => []Journey
  <1>1. Init => Journey
    <2> SUFFICES ASSUME Init PROVE Journey
      OBVIOUS
    <2>1. Document(NoDocument)
      BY DEF Document, NoDocument, None, Of, JsonKinds, Absent
    <2>2. "RequestId" \in DOMAIN Unions
      BY DEF Unions
    <2> QED
      BY <2>1, <2>2, MaxHopsAssumption DEF Init, Journey
  <1>2. Handshake /\ Journey /\ [Next]_vars => Journey'
    BY JourneyStep
  <1> QED
    BY <1>1, <1>2, HandshakeInvariance, PTL DEF Spec

-----------------------------------------------------------------------------
(* The theorems.                                                           *)

\* Every variable keeps its type, however often the document is passed on.
THEOREM TypeCorrect == Spec => []TypeOK
  <1>1. Handshake /\ Journey => TypeOK
    <2> SUFFICES ASSUME Handshake, Journey PROVE TypeOK
      OBVIOUS
    <2>1. Table(U)
      BY EveryTable DEF Journey, U
    <2>2. Len(U.types) \in Nat
      BY <2>1 DEF Table
    <2>3. Failed.variant = 0
      BY DEF Failed
    <2>4. value.variant \in 0..Len(U.types)
      BY <2>2, <2>3 DEF Journey
    <2>5. doc.json \in JsonKinds /\ \A k \in DOMAIN doc.body : doc.body[k] \in JsonKinds
      BY DEF Journey, Document
    <2> QED
      BY <2>4, <2>5 DEF Handshake, Journey, TypeOK
  <1> QED
    BY <1>1, HandshakeInvariance, JourneyInvariance, PTL

\* What a state says of the document whose tag is variant i's own.
LEMMA TagRead ==
    ASSUME Journey, stage = "read", origin.json = "object",
           NEW i \in 1..Len(U.types), U.cases[i] = origin.tag
    PROVE  /\ value.variant = i
           /\ \A k \in DOMAIN U.types[i].always : k \in DOMAIN origin.body =>
                 k \in DOMAIN value.set /\ origin.body[k] \in {value.set[k], "null", "whole"}
  <1> DEFINE u == U
             o == origin
             d == Flattened(doc, nested)
             v == UnmarshalJSON(u, d)
  <1>1. Table(u)
    BY EveryTable DEF Journey, U
  <1>2. /\ Underway(union, origin, doc, nested, hops)
        /\ value = v /\ v # Failed
    BY DEF Journey
  <1>3. /\ Document(doc) /\ o.tag \notin {Kept, NoTag} /\ Keeps(u, o, doc)
        /\ \A k \in DOMAIN nested : nested[k] = "string"
        /\ doc.tag = Absent => DOMAIN nested = {}
    BY <1>2 DEF Underway, U
  <1>4. i \in 1..Len(u.types) /\ u.cases[i] = o.tag /\ o.json = "object"
    OBVIOUS
  <1> HIDE DEF u, o
  <1>5. Document(d)
    BY <1>3, FlatDocument
  <1>6. Keeps(u, o, d)
    BY <1>3, KeepsFlat
  <1> HIDE DEF d
  <1>7. /\ v.variant = i
        /\ \A k \in DOMAIN u.types[i].always : k \in DOMAIN o.body =>
              k \in DOMAIN v.set /\ o.body[k] \in {v.set[k], "null", "whole"}
    BY <1>1, <1>2, <1>3, <1>4, <1>5, <1>6, KeepsRead
  <1> HIDE DEF v
  <1> QED
    BY <1>2, <1>7 DEF u, o

\* A document tagged as one variant is read as that variant or refused, by
\* the client and by every peer it is passed on to (UnmarshalJSON switches on
\* the discriminator before it looks at keys).
THEOREM TagsDecide == Spec => []TagDecides
  <1>1. Journey => TagDecides
    <2> SUFFICES ASSUME Journey, stage = "read", origin.json = "object",
                        NEW i \in 1..Len(U.cases), U.cases[i] = origin.tag
                 PROVE  value.variant = i
      BY DEF TagDecides
    <2>1. Table(U)
      BY EveryTable DEF Journey, U
    <2>2. i \in 1..Len(U.types)
      BY <2>1 DEF Table
    <2> QED
      BY <2>2, TagRead
  <1> QED
    BY <1>1, JourneyInvariance, PTL

\* The keys a tagged variant requires are read wherever the document comes to,
\* with the kind they were sent with (every MarshalJSON writes what its
\* UnmarshalJSON read).
THEOREM RequiredKeysSurvive == Spec => []RequiredSurvive
  <1>1. Journey => RequiredSurvive
    <2> SUFFICES ASSUME Journey, stage = "read", origin.json = "object",
                        NEW i \in 1..Len(U.cases), origin.tag = U.cases[i],
                        NEW k \in DOMAIN U.types[value.variant].always \cap DOMAIN origin.body
                 PROVE  k \in DOMAIN value.set /\ origin.body[k] \in {value.set[k], "null", "whole"}
      BY DEF RequiredSurvive
    <2>1. Table(U)
      BY EveryTable DEF Journey, U
    <2>2. i \in 1..Len(U.types)
      BY <2>1 DEF Table
    <2>3. /\ value.variant = i
          /\ \A q \in DOMAIN U.types[i].always : q \in DOMAIN origin.body =>
                q \in DOMAIN value.set /\ origin.body[q] \in {value.set[q], "null", "whole"}
      BY <2>2, TagRead
    <2> QED
      BY <2>3
  <1> QED
    BY <1>1, JourneyInvariance, PTL

\* An outcome that is not tagged as a selection is not read as one, however
\* often it is passed on (RequestPermissionOutcome.UnmarshalJSON).
THEOREM OnlySelectedSelects == Spec => []UnknownNeverSelects
  <1>1. Journey => UnknownNeverSelects
    <2> SUFFICES ASSUME Journey, stage = "read", union = "RequestPermissionOutcome",
                        origin.tag # "selected"
                 PROVE  U.tags[value.variant] # "selected"
      BY DEF UnknownNeverSelects
    <2> DEFINE d == Flattened(doc, nested)
               v == UnmarshalJSON(U, d)
    <2>1. Underway(union, origin, doc, nested, hops) /\ value = v /\ v # Failed
      BY DEF Journey
    <2>2. /\ Document(doc) /\ doc.tag # "selected"
          /\ \A k \in DOMAIN nested : nested[k] = "string"
          /\ doc.tag = Absent => DOMAIN nested = {}
      BY <2>1 DEF Underway
    <2>3. Document(d) /\ d.tag # "selected"
      BY <2>2, FlatDocument
    <2>4. U = RequestPermissionOutcome
      BY UnionValues DEF U
    <2> HIDE DEF d
    <2>5. value.variant = 1
      BY <2>1, <2>3, <2>4, UnselectedRead
    <2>6. U.tags[1] = "cancelled"
      BY <2>4 DEF RequestPermissionOutcome, Union
    <2> QED
      BY <2>5, <2>6
  <1> QED
    BY <1>1, JourneyInvariance, PTL

\* A document that was passed on once is read and written unchanged by every
\* later peer: what MarshalJSON writes, UnmarshalJSON and MarshalJSON restore.
THEOREM PassedOnUnchanged == Spec => PassingOnIsStable
  <1>1. ASSUME Handshake, Journey, [Next]_vars, ~(UNCHANGED vars), hops > 0, stage = "read"
        PROVE  stage' = "sent" /\ doc' = doc
    <2>1. phase = "open"
      BY <1>1 DEF Handshake
    <2>2. PassOn
      BY <1>1, <2>1 DEF Next, Launch, InitializeFails, FinishStart, Close, AgentReplies,
                        Unsupported, Receive
    <2>3. /\ Underway(union, origin, doc, nested, hops) /\ union \in DOMAIN Unions
          /\ hops \in Nat /\ value # Failed
          /\ value = UnmarshalJSON(Unions[union], Flattened(doc, nested))
      BY <1>1 DEF Journey, U
    <2>4. Writable(Unions[union], value) /\ MarshalJSON(Unions[union], value) = doc
      BY <1>1, <2>3, Passed
    <2> QED
      BY <2>2, <2>4 DEF PassOn
  <1>2. Handshake /\ Journey /\ [Next]_vars
           => [hops > 0 /\ stage = "read" => stage' = "sent" /\ doc' = doc]_vars
    BY <1>1
  <1> QED
    BY <1>2, HandshakeInvariance, JourneyInvariance, PTL DEF Spec, PassingOnIsStable
=============================================================================
