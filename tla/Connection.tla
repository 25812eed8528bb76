----------------------------- MODULE Connection -----------------------------
(***************************************************************************)
(* The ACP client connection (client/client.go): the initialize handshake, *)
(* the routing of what the agent sends, and the reading of its documents.  *)
(*                                                                         *)
(* One document goes from peer to peer: it is read as the type its place   *)
(* in the protocol gives it and written again by whoever passes it on,     *)
(* which is what a proxy or a recording does.  Session updates and         *)
(* elicitation requests arrive through this client, which rewrites and     *)
(* validates them first; the other unions are read where they are nested,  *)
(* or by the agent.                                                        *)
(***************************************************************************)
EXTENDS Wire

CONSTANTS Versions,     \* protocol versions an agent may select; 0: none given
          MaxHops       \* how often a document is passed on

ASSUME MaxHopsAssumption == MaxHops \in Nat

ProtocolVersion == 1

\* A session capability as an agent advertises it: absent, a boolean as some
\* agents write it, or the object of the schema.
Replies == [version : Versions, resume : {"absent", "true", "false", "object"}]

VARIABLES
    phase,      \* Start: "new", "calling", "open", "failed"; "closed" after Close
    process,    \* the agent: "none", "running", "stopped"
    reply,      \* the answer to initialize that is on its way, or <<>>
    resume,     \* the capability of the stored response, "none" before
    union, doc, \* the document under way and the type it is read as
    nested,     \* a tool call's fields as some agents nest them
    origin,     \* the document as it was first sent
    value,      \* what was read
    stage,      \* "idle", "sent", "read", "refused", "unsupported", "unwritable"
    hops        \* how often it was passed on

connVars == <<phase, process, reply, resume>>
docVars == <<union, doc, nested, origin, value, stage, hops>>
vars == <<connVars, docVars>>

-----------------------------------------------------------------------------
(* The documents: any keys of at most two variants of the union, at most   *)
(* one of them with an unexpected kind or one optional key beside them,    *)
(* under any tag.                                                          *)

Natural(go) ==
    CASE go \in {"union", "object", "error", "struct", "any", "empty"} -> "object"
      [] go \in {"array", "list"} -> "array"
      [] go = "id" -> "int"
      [] OTHER -> go

Tags(u) ==
    LET cases == {u.cases[i] : i \in 1..Len(u.cases)} IN
    IF cases = {NoTag} THEN {Absent}
    ELSE (cases \ {Kept, NoTag}) \cup {Absent, Unknown, IllTyped}

\* Some of the keys, each of its own kind.
Plain(always) ==
    {[k \in keys |-> Natural(always[k])] : keys \in SUBSET DOMAIN always}

\* One key of any kind.
Odd(plain) ==
    UNION {{[b EXCEPT ![k] = json] : k \in DOMAIN b, json \in JsonKinds} : b \in plain}

\* One optional key more.
Richer(plain, optional) ==
    UNION {{b @@ Of(Natural(optional[o]), {o}) : o \in DOMAIN optional} : b \in plain}

Bodies(u, i, j) ==
    LET plain == Plain(u.types[i].always @@ u.types[j].always) IN
    plain \cup Odd(plain) \cup Richer(plain, u.types[i].optional)

Documents(u) ==
    {[json |-> json, tag |-> Absent, body |-> None] : json \in JsonKinds}
    \cup UNION {UNION {[json : {"object"}, tag : Tags(u), body : Bodies(u, i, j)] :
                         j \in 1..Len(u.types)} : i \in 1..Len(u.types)}

\* Fields nested under the key the client looks for.
Nestings(u, d) ==
    IF u = SessionUpdate /\ d.tag \in {"tool_call", "tool_call_update"}
    THEN {None} \cup {[k \in keys |-> "string"] : keys \in SUBSET {"toolCallId", "title"}}
    ELSE {None}

-----------------------------------------------------------------------------
NoDocument == [json |-> "null", tag |-> Absent, body |-> None]

Init ==
    /\ phase = "new" /\ process = "none" /\ reply = <<>> /\ resume = "none"
    /\ union = "RequestId" /\ doc = NoDocument /\ origin = NoDocument
    /\ nested = None /\ value = Failed /\ stage = "idle" /\ hops = 0

\* Start launches the agent once its own version and parameters are right.
Launch ==
    /\ phase = "new"
    /\ \/ phase' = "calling" /\ process' = "running"
       \/ phase' = "failed" /\ UNCHANGED process
    /\ UNCHANGED <<reply, resume, docVars>>

AgentReplies(r) ==
    /\ phase = "calling" /\ reply = <<>> /\ reply' = r
    /\ UNCHANGED <<phase, process, resume, docVars>>

\* The call fails, the agent dies, or its answer is no JSON object.
InitializeFails ==
    /\ phase = "calling" /\ reply = <<>>
    /\ phase' = "failed" /\ process' = "stopped"
    /\ UNCHANGED <<reply, resume, docVars>>

\* normalizeInitializeResponse: a boolean capability becomes an object or
\* goes away.
Normalized(capability) ==
    CASE capability = "true" -> "object"
      [] capability = "false" -> "absent"
      [] OTHER -> capability

\* A version left out is taken for the client's own; a capability that is
\* still a boolean does not fit its type.
Negotiated(r) ==
    /\ (IF r.version = 0 THEN ProtocolVersion ELSE r.version) = ProtocolVersion
    /\ Normalized(r.resume) \in {"absent", "object"}

\* Mutant: a version mismatch returns without closing the process.
FinishStart_Leaves ==
    /\ phase = "calling" /\ reply # <<>> /\ reply' = <<>>
    /\ IF Negotiated(reply)
       THEN phase' = "open" /\ resume' = Normalized(reply.resume)
       ELSE phase' = "failed" /\ UNCHANGED resume
    /\ UNCHANGED <<process, docVars>>

FinishStart ==
    /\ phase = "calling" /\ reply # <<>> /\ reply' = <<>>
    /\ IF Negotiated(reply)
       THEN phase' = "open" /\ resume' = Normalized(reply.resume) /\ UNCHANGED process
       ELSE phase' = "failed" /\ process' = "stopped" /\ UNCHANGED resume
    /\ UNCHANGED docVars

Close ==
    /\ phase = "open" /\ stage = "idle" /\ phase' = "closed" /\ process' = "stopped"
    /\ UNCHANGED <<reply, resume, docVars>>

-----------------------------------------------------------------------------
(* What the agent sends.                                                   *)

\* The agent, or the peer that answers it, sends a document.  (The handlers
\* are registered before the handshake and never look at it, so documents
\* that arrive during it are treated the same.)
Send(u, d) ==
    /\ union' = u /\ doc' = d /\ origin' = d
    /\ nested' \in Nestings(Unions[u], d)
    /\ stage' = "sent"
    /\ UNCHANGED <<connVars, value, hops>>

\* The embedder's handler may lack the interface that handleRequest or
\* handleNotification needs for the message.
Unsupported ==
    /\ stage = "sent" /\ hops = 0
    /\ union \in {"SessionUpdate", "CreateElicitationRequest"}
    /\ stage' = "unsupported"
    /\ UNCHANGED <<connVars, union, doc, nested, origin, value, hops>>

\* decodeSessionNotification: the fields of a nested tool call are those of
\* the update, unless the update has them itself.
Flattened(d, n) == [d EXCEPT !.body = @ @@ n]

\* decodeParams validates what was read: an elicitation needs a message.
Validate(u, v) ==
    u = "CreateElicitationRequest" => "message" \in DOMAIN v.set

\* The document is read.
Receive ==
    /\ stage = "sent"
    /\ LET v == UnmarshalJSON(Unions[union], Flattened(doc, nested)) IN
       IF v # Failed /\ Validate(union, v)
       THEN stage' = "read" /\ value' = v
       ELSE stage' = "refused" /\ value' = Failed
    /\ UNCHANGED <<connVars, union, doc, nested, origin, hops>>

\* What was read is written for the next peer, flat.
PassOn ==
    /\ stage = "read" /\ hops < MaxHops
    /\ IF Writable(Unions[union], value)
       THEN /\ doc' = MarshalJSON(Unions[union], value)
            /\ stage' = "sent" /\ hops' = hops + 1
       ELSE stage' = "unwritable" /\ UNCHANGED <<doc, hops>>
    /\ nested' = None
    /\ UNCHANGED <<connVars, union, origin, value>>

Next ==
    \/ Launch \/ InitializeFails \/ FinishStart \/ Close
    \/ \E r \in Replies : AgentReplies(r)
    \/ /\ phase = "open" /\ stage = "idle"
       /\ \E u \in DOMAIN Unions : \E d \in Documents(Unions[u]) : Send(u, d)
    \/ Unsupported \/ Receive \/ PassOn

Spec == Init /\ [][Next]_vars

-----------------------------------------------------------------------------
(* Properties.                                                             *)

U == Unions[union]

TypeOK ==
    /\ phase \in {"new", "calling", "open", "failed", "closed"}
    /\ process \in {"none", "running", "stopped"}
    /\ reply \in Replies \cup {<<>>}
    /\ resume \in {"none", "absent", "object"}
    /\ union \in DOMAIN Unions
    /\ doc.json \in JsonKinds /\ \A k \in DOMAIN doc.body : doc.body[k] \in JsonKinds
    /\ value.variant \in 0..Len(U.types)
    /\ stage \in {"idle", "sent", "read", "refused", "unsupported", "unwritable"}
    /\ hops \in 0..MaxHops

\* A step that ends Start ends it in one of two ways: a connection to an agent
\* that runs, or an error and no process, whichever step failed.  A reply with
\* the client's version opens the connection, also when the agent writes its
\* capabilities as booleans, and a capability is there exactly when it has it.
StartDecides ==
    [][LET ends == phase \in {"new", "calling"} /\ phase' \notin {"new", "calling"}
           agreed == reply # <<>> /\ reply.version \in {0, ProtocolVersion}
       IN ends => /\ phase' = "open" <=> process' = "running"
                  /\ phase' = "open" <=> resume' # "none"
                  /\ agreed => /\ phase' = "open"
                               /\ resume' = "object" <=> reply.resume \in {"true", "object"}]_vars

\* The discriminator decides: a document tagged as one variant is read as
\* that variant or refused, also where another has the same keys, and also
\* after it was passed on.
TagDecides ==
    stage = "read" /\ origin.json = "object" =>
        \A i \in 1..Len(U.cases) : U.cases[i] = origin.tag => value.variant = i

\* A key that a tagged variant must have is not lost on the way, nor is its
\* kind changed, beyond null and numbers that Go writes anew.
RequiredSurvive ==
    stage = "read" /\ origin.json = "object" /\ origin.tag \in {U.cases[i] : i \in 1..Len(U.cases)} =>
        \A k \in DOMAIN U.types[value.variant].always \cap DOMAIN origin.body :
            /\ k \in DOMAIN value.set
            /\ origin.body[k] \in {value.set[k], "null", "whole"}

\* An answer to a permission request that names no known outcome never
\* counts as a selection.
UnknownNeverSelects ==
    stage = "read" /\ union = "RequestPermissionOutcome"
        /\ U.tags[value.variant] = "selected" => origin.tag = "selected"

\* What one peer wrote the next writes again unchanged, and it can.
PassingOnIsStable ==
    [][hops > 0 /\ stage = "read" => stage' = "sent" /\ doc' = doc]_vars
=============================================================================
