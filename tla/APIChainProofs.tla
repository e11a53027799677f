--------------------------- MODULE APIChainProofs ---------------------------
(***************************************************************************)
(* What APIChain promises for integers of any width, any request size      *)
(* limit and bodies of any length.                                         *)
(***************************************************************************)
EXTENDS APIChain, TLAPS

Stages == {"cors", "security", "rate", "size", "logging", "root", "auth",
           "audit", "handler", "body", "return", "recovery", "done", "idle"}

Types ==
    /\ size \in [number: Numbers, unit: {1, Kilo}]
    /\ req \in Request
    /\ pc \in Stages
    /\ wire \in Statuses \cup {NoStatus}
    /\ rw \in [status: Statuses, wrote: BOOLEAN]
    /\ headers \subseteq {"cors", "security"} \cup Ids
    /\ log \subseteq Lines \cup Ids
    /\ got \in [body: 0..MaxBody, cut: BOOLEAN]
    /\ panicking \in BOOLEAN /\ written \in BOOLEAN

-----------------------------------------------------------------------------
(* Integers.                                                               *)

LEMMA ModSmall ==
    ASSUME NEW a \in Nat, NEW b \in Nat \ {0}, a < b
    PROVE  a % b = a
  OBVIOUS

LEMMA ModRange ==
    ASSUME NEW a \in Int, NEW b \in Nat \ {0}
    PROVE  a % b \in 0..(b - 1)
  OBVIOUS

\* A wrapped integer is in range, and one in range is not changed.
LEMMA WrappedRange ==
    ASSUME NEW n \in Int
    PROVE  Wrapped(n) \in (-Half)..(Half - 1)
<1>1. (n + Half) % (2 * Half) \in 0..(2 * Half - 1)
  BY SizesAssumption, ModRange
<1>. QED  BY <1>1, SizesAssumption DEF Wrapped

LEMMA WrappedSmall ==
    ASSUME NEW n \in (-Half)..(Half - 1)
    PROVE  Wrapped(n) = n
<1>1. n + Half \in Nat /\ 2 * Half \in Nat \ {0} /\ n + Half < 2 * Half
  BY SizesAssumption
<1>2. (n + Half) % (2 * Half) = n + Half
  BY <1>1, ModSmall
<1>. QED  BY <1>2, SizesAssumption DEF Wrapped

-----------------------------------------------------------------------------
(* Types.                                                                  *)

LEMMA RequestBody ==
    ASSUME NEW q \in Request
    PROVE  /\ q.body \in 0..MaxBody /\ q.declared \in Int /\ q.cut \in BOOLEAN
           /\ q.declared = 0 => q.body = 0
           /\ q.declared \in {-1, q.body, q.body + 1}
BY SizesAssumption DEF Request

LEMMA SomeRequest == NoRequest \in Request
<1>. DEFINE q == [key |-> "none", origin |-> "none", method |-> "GET", health |-> TRUE,
                  id |-> TRUE, body |-> 0, declared |-> 0, cut |-> FALSE]
<1>1. q \in Request
  BY SizesAssumption DEF Request, Keys, Origins
<1>. HIDE DEF q
<1>. QED  BY <1>1 DEF NoRequest

LEMMA LimitInt == Types => Limit(size) \in (-Half)..(Half - 1)
<1>. SUFFICES ASSUME Types PROVE Limit(size) \in (-Half)..(Half - 1)
  OBVIOUS
<1>1. size.number \in Int /\ size.unit \in Int
  <2>1. size.number \in Numbers /\ size.unit \in {1, Kilo}
    BY DEF Types
  <2>2. Numbers \subseteq 0..(Half - 1) /\ Kilo \in Int
    BY SizesAssumption
  <2>3. size.number \in 0..(Half - 1)
    BY <2>1, <2>2, Zenon
  <2>4. size.number \in Int
    BY <2>3
  <2>. QED  BY <2>1, <2>2, <2>4
<1>2. size.number * size.unit \in Int
  BY <1>1
<1>. QED  BY <1>2, WrappedRange DEF Limit

\* What the size limit reads of a body.
LEMMA ReadIs ==
    ASSUME Types, NEW max \in 1..(Half - 1)
    PROVE  /\ Read(max) \in [body : 0..MaxBody, cut : BOOLEAN]
           /\ (max # Half - 1 /\ Read(max).body <= max) =>
                  Read(max) = [body |-> req.body, cut |-> req.cut]
           /\ (max # Half - 1 /\ Read(max).body <= max) => req.body <= max
<1>. DEFINE most == IF Wrapped(max + 1) < 0 THEN 0 ELSE Wrapped(max + 1)
<1>1. Wrapped(max + 1) \in Int
  BY SizesAssumption, WrappedRange
<1>2. most \in Nat
  BY <1>1
<1>3. max # Half - 1 => most = max + 1
  BY SizesAssumption, WrappedSmall
<1>4. req.body \in 0..MaxBody /\ req.cut \in BOOLEAN
  BY RequestBody DEF Types
<1>5. Read(max) = IF req.body < most THEN [body |-> req.body, cut |-> req.cut]
                                     ELSE [body |-> most, cut |-> FALSE]
  BY DEF Read
<1>. HIDE DEF most
<1>6. CASE req.body < most
  BY <1>2, <1>3, <1>4, <1>5, <1>6, SizesAssumption
<1>7. CASE ~(req.body < most)
  BY <1>2, <1>3, <1>4, <1>5, <1>7, SizesAssumption
<1>. QED  BY <1>6, <1>7

LEMMA TypesInit == Init => Types
<1>. SUFFICES ASSUME Init PROVE Types
  OBVIOUS
<1>1. rw \in [status: Statuses, wrote: BOOLEAN] /\ wire \in Statuses \cup {NoStatus}
  BY DEF Init, Statuses
<1>2. got \in [body: 0..MaxBody, cut: BOOLEAN]
  BY SizesAssumption DEF Init
<1>3. /\ size \in [number: Numbers, unit: {1, Kilo}] /\ req \in Request /\ pc \in Stages
      /\ headers = {} /\ log = {} /\ panicking \in BOOLEAN /\ written \in BOOLEAN
  BY SomeRequest DEF Init, Stages
<1>. QED  BY <1>1, <1>2, <1>3 DEF Types

LEMMA SendTypes ==
    ASSUME Types, NEW s \in Statuses, Send(s)
    PROVE  wire' \in Statuses \cup {NoStatus}
BY DEF Types, Send

LEMMA IdIs == ASSUME NEW i PROVE Id(i) \in {"id: sent", i}
BY DEF Id

LEMMA WriteTypes ==
    ASSUME Types, NEW s \in Statuses, WriteHeader(s)
    PROVE  wire' \in Statuses \cup {NoStatus} /\ rw' \in [status: Statuses, wrote: BOOLEAN]
<1>1. [status |-> s, wrote |-> TRUE] \in [status: Statuses, wrote: BOOLEAN]
  OBVIOUS
<1>2. CASE UNCHANGED <<wire, rw>>
  BY <1>2 DEF Types
<1>3. CASE Send(s) /\ rw' = [status |-> s, wrote |-> TRUE]
  BY <1>1, <1>3, SendTypes
<1>. QED  BY <1>2, <1>3 DEF WriteHeader

LEMMA OuterTypes ==
    ASSUME Types, CORS \/ Security \/ RateLimit \/ SizeLimit \/ Logging
    PROVE  Types'
<1>1. ASSUME NEW s \in Statuses, Answer(s), headers' \subseteq {"cors", "security"} \cup Ids,
             log' \subseteq Lines \cup Ids
      PROVE  Types'
  BY <1>1, SendTypes DEF Types, Answer, Stages
<1>2. ASSUME NEW l \in Stages, pc' = l, UNCHANGED <<size, req, wire, rw, panicking, written>>,
             headers' \subseteq {"cors", "security"} \cup Ids, log' \subseteq Lines \cup Ids,
             got' \in [body: 0..MaxBody, cut: BOOLEAN]
      PROVE  Types'
  BY <1>2 DEF Types
<1>3. {"ok", "too many", "too large", "server error"} \subseteq Statuses
  BY DEF Statuses
<1>4. /\ headers \subseteq {"cors", "security"} \cup Ids /\ log \subseteq Lines \cup Ids
      /\ got \in [body: 0..MaxBody, cut: BOOLEAN]
  BY DEF Types
<1>5. CASE CORS
  <2>1. headers' \subseteq {"cors", "security"} \cup Ids /\ log' \subseteq Lines \cup Ids
    BY <1>4, <1>5 DEF CORS
  <2>2. Answer("ok") \/ (Proceed /\ UNCHANGED got)
    BY <1>5 DEF CORS
  <2>3. Inner[pc] = "security" /\ "security" \in Stages
    BY <1>5 DEF CORS, Inner, Stages
  <2>. QED  BY <1>1, <1>2, <1>3, <1>4, <2>1, <2>2, <2>3 DEF Proceed
<1>6. CASE Security
  <2>1. Inner[pc] = "rate" /\ "rate" \in Stages
    BY <1>6 DEF Security, Inner, Stages
  <2>. QED  BY <1>2, <1>4, <1>6, <2>1 DEF Security, Proceed
<1>7. CASE RateLimit
  <2>1. headers' \subseteq {"cors", "security"} \cup Ids /\ log' \subseteq Lines \cup Ids
    BY <1>4, <1>7 DEF RateLimit, Lines
  <2>2. Answer("too many") \/ (Proceed /\ UNCHANGED got)
    BY <1>7 DEF RateLimit
  <2>3. Inner[pc] = "size" /\ "size" \in Stages
    BY <1>7 DEF RateLimit, Inner, Stages
  <2>. QED  BY <1>1, <1>2, <1>3, <1>4, <2>1, <2>2, <2>3 DEF Proceed
<1>8. CASE SizeLimit
  <2>1. headers' \subseteq {"cors", "security"} \cup Ids /\ log' \subseteq Lines \cup Ids
    BY <1>4, <1>8 DEF SizeLimit, Lines
  <2>2. \/ Answer("too large") \/ Answer("server error")
        \/ Proceed /\ UNCHANGED got
        \/ Proceed /\ got' = Read(Limit(size)) /\ Limit(size) > 0
    <3>1. Limit(size) \in Int /\ (~(Limit(size) <= 0) => Limit(size) > 0)
      BY LimitInt, SizesAssumption
    <3>. QED  BY <1>8, <3>1, Zenon DEF SizeLimit
  <2>3. Limit(size) > 0 => Read(Limit(size)) \in [body : 0..MaxBody, cut : BOOLEAN]
    BY LimitInt, ReadIs, SizesAssumption
  <2>4. Inner[pc] = "logging" /\ "logging" \in Stages
    BY <1>8 DEF SizeLimit, Inner, Stages
  <2>. QED  BY <1>1, <1>2, <1>3, <1>4, <2>1, <2>2, <2>3, <2>4 DEF Proceed
<1>9. CASE Logging
  <2>1. Inner[pc] = "root" /\ "root" \in Stages
    BY <1>9 DEF Logging, Inner, Stages
  <2>2. Id("id: logging") \in Ids
    BY IdIs DEF Ids
  <2>3. headers' \subseteq {"cors", "security"} \cup Ids /\ log' \subseteq Lines \cup Ids
    BY <1>4, <1>9, <2>2 DEF Logging, Lines
  <2>. QED  BY <1>2, <1>4, <1>9, <2>1, <2>3 DEF Logging, Proceed
<1>. QED  BY <1>5, <1>6, <1>7, <1>8, <1>9

LEMMA InnerTypes ==
    ASSUME Types, Root \/ APIKey \/ Audit \/ Handler \/ WriteBody \/ Panic \/ Completed \/ Recovery
    PROVE  Types'
<1>0. /\ headers \subseteq {"cors", "security"} \cup Ids /\ log \subseteq Lines \cup Ids
      /\ got \in [body: 0..MaxBody, cut: BOOLEAN]
      /\ wire \in Statuses \cup {NoStatus} /\ rw \in [status: Statuses, wrote: BOOLEAN]
      /\ panicking \in BOOLEAN /\ written \in BOOLEAN
      /\ size \in [number: Numbers, unit: {1, Kilo}] /\ req \in Request
  BY DEF Types
<1>1. ASSUME pc' \in Stages, UNCHANGED <<size, req, got>>,
             wire' \in Statuses \cup {NoStatus}, rw' \in [status: Statuses, wrote: BOOLEAN],
             headers' \subseteq {"cors", "security"} \cup Ids, log' \subseteq Lines \cup Ids,
             panicking' \in BOOLEAN, written' \in BOOLEAN
      PROVE  Types'
  BY <1>0, <1>1 DEF Types
<1>2. {"ok", "not allowed", "unauthorized", "client error", "server error"} \subseteq Statuses
  BY DEF Statuses
<1>3. /\ Id("id: auth") \in Ids /\ Id("id: audit") \in Ids /\ Id("id: logging") \in Ids
  BY IdIs DEF Ids
<1>4. ASSUME NEW s \in Statuses, Written(s)
      PROVE  wire' \in Statuses \cup {NoStatus} /\ rw' \in [status: Statuses, wrote: BOOLEAN]
  BY <1>4, WriteTypes DEF Written
<1>5. CASE Root
  BY <1>0, <1>1, <1>2, <1>4, <1>5 DEF Root, Stages, Written
<1>6. CASE APIKey
  <2>1. Inner[pc] = "audit" /\ {"audit", "body"} \subseteq Stages
    BY <1>6 DEF APIKey, Inner, Stages
  <2>2. pc' \in Stages
    BY <1>6, <2>1 DEF APIKey, Proceed
  <2>3. log' \subseteq Lines \cup Ids
    BY <1>0, <1>3, <1>6 DEF APIKey, Lines
  <2>4. UNCHANGED <<size, req, got, headers, panicking, written>>
    BY <1>6 DEF APIKey, Proceed, Written
  <2>5. wire' \in Statuses \cup {NoStatus} /\ rw' \in [status: Statuses, wrote: BOOLEAN]
    BY <1>0, <1>2, <1>4, <1>6 DEF APIKey, Proceed
  <2>. QED  BY <1>0, <1>1, <2>2, <2>3, <2>4, <2>5
<1>7. CASE Audit
  <2>1. Inner[pc] = "handler" /\ "handler" \in Stages
    BY <1>7 DEF Audit, Inner, Stages
  <2>2. headers' \subseteq {"cors", "security"} \cup Ids
    BY <1>0, <1>3, <1>7 DEF Audit
  <2>. QED  BY <1>0, <1>1, <1>7, <2>1, <2>2 DEF Audit, Proceed
<1>8. CASE Handler
  BY <1>0, <1>1, <1>2, <1>4, <1>8 DEF Handler, Stages, Written
<1>9. CASE WriteBody
  BY <1>0, <1>1, <1>2, <1>9, WriteTypes DEF WriteBody, Stages
<1>10. CASE Panic
  BY <1>0, <1>1, <1>10 DEF Panic, Stages
<1>11. CASE Completed
  BY <1>0, <1>1, <1>11 DEF Completed, Stages, Lines
<1>12. CASE Recovery
  <2>1. wire' \in Statuses \cup {NoStatus}
    BY <1>0, <1>2, <1>12, SendTypes DEF Recovery
  <2>. QED  BY <1>0, <1>1, <1>12, <2>1 DEF Recovery, Stages, Lines
<1>. QED  BY <1>5, <1>6, <1>7, <1>8, <1>9, <1>10, <1>11, <1>12

LEMMA TypesKept == Types /\ [Next]_vars => Types'
<1>1. ASSUME Types, Receive PROVE Types'
  BY <1>1, RequestBody DEF Receive, Types, Stages
<1>2. ASSUME Types, Finish PROVE Types'
  <2>1. /\ rw' \in [status: Statuses, wrote: BOOLEAN] /\ wire' \in Statuses \cup {NoStatus}
    BY <1>2 DEF Finish, Statuses
  <2>2. got' \in [body: 0..MaxBody, cut: BOOLEAN]
    BY <1>2, SizesAssumption DEF Finish
  <2>3. /\ size' \in [number: Numbers, unit: {1, Kilo}] /\ req' \in Request /\ pc' \in Stages
        /\ headers' = {} /\ log' = {} /\ panicking' \in BOOLEAN /\ written' \in BOOLEAN
    BY <1>2, SomeRequest DEF Finish, Types, Stages
  <2>. QED  BY <2>1, <2>2, <2>3 DEF Types
<1>3. ASSUME Types, UNCHANGED vars PROVE Types'
  BY <1>3 DEF Types, vars
<1>. QED  BY <1>1, <1>2, <1>3, OuterTypes, InnerTypes DEF Next

-----------------------------------------------------------------------------
(* What is known of the request in each layer.                             *)

Outer   == {"idle", "cors", "security", "rate", "size", "logging"}
Serving == {"root", "auth", "audit", "handler"}

\* No layer has answered, and the layers before have done their part.
Guarded ==
    /\ pc \in Outer \cup Serving => wire = NoStatus /\ ~rw.wrote
    /\ pc \in {"audit", "handler"} => req.key \in {"current", "old"}
    /\ pc \in {"rate", "size", "logging"} \cup Serving => "security" \in headers

\* The request id of the response is set once, and then replaced.
OneId ==
    /\ pc \in Outer => headers \cap Ids = {}
    /\ pc \in {"root", "auth", "audit"} => headers \cap Ids = {Id("id: logging")}
    /\ \A i, j \in headers \cap Ids : i = j

Meant == size.number * size.unit

\* The body before the size limit and after it.
Bodies ==
    /\ pc \in {"cors", "security", "rate", "size"} =>
          got = [body |-> req.body, cut |-> req.cut]
    /\ pc \in {"logging"} \cup Serving =>
          /\ Limit(size) # Half - 1 => got = [body |-> req.body, cut |-> req.cut]
          /\ Meant \in 1..(Half - 1) => req.body <= Meant

LEMMA StageSets ==
    /\ Inner["cors"] = "security" /\ Inner["security"] = "rate" /\ Inner["rate"] = "size"
    /\ Inner["size"] = "logging" /\ Inner["logging"] = "root" /\ Inner["auth"] = "audit"
    /\ Inner["audit"] = "handler"
BY DEF Inner

LEMMA GuardedKept == Guarded /\ [Next]_vars => Guarded'
<1>. SUFFICES ASSUME Guarded, [Next]_vars PROVE Guarded'
  OBVIOUS
<1>1. CASE Receive
  BY <1>1 DEF Receive, Guarded, Outer, Serving
<1>2. CASE Finish
  BY <1>2 DEF Finish, Guarded, Outer, Serving
<1>3. ASSUME NEW s, Answer(s) PROVE Guarded'
  BY <1>3 DEF Answer, Guarded, Outer, Serving
<1>4. CASE CORS
  BY <1>3, <1>4, StageSets DEF CORS, Proceed, Guarded, Outer, Serving
<1>5. CASE Security
  BY <1>5, StageSets DEF Security, Proceed, Guarded, Outer, Serving
<1>6. CASE RateLimit
  BY <1>3, <1>6, StageSets DEF RateLimit, Proceed, Guarded, Outer, Serving
<1>7. CASE SizeLimit
  <2>1. Proceed \/ Answer("too large") \/ Answer("server error")
    BY <1>7, Zenon DEF SizeLimit
  <2>2. pc = "size" /\ UNCHANGED headers
    BY <1>7 DEF SizeLimit
  <2>. QED  BY <1>3, <2>1, <2>2, StageSets DEF Proceed, Guarded, Outer, Serving
<1>8. CASE Logging
  BY <1>8, StageSets DEF Logging, Proceed, Guarded, Outer, Serving
<1>9. CASE Root
  BY <1>9 DEF Root, Written, Guarded, Outer, Serving
<1>10. CASE APIKey
  BY <1>10, StageSets DEF APIKey, Proceed, Written, Guarded, Outer, Serving
<1>11. CASE Audit
  <2>1. "security" \in headers'
    BY <1>11, IdIs DEF Audit, Guarded, Serving
  <2>. QED  BY <1>11, <2>1, StageSets DEF Audit, Proceed, Guarded, Outer, Serving
<1>12. CASE Handler \/ WriteBody \/ Panic \/ Completed \/ Recovery
  BY <1>12 DEF Handler, WriteBody, Panic, Completed, Recovery, Guarded, Outer, Serving
<1>13. CASE UNCHANGED vars
  BY <1>13 DEF vars, Guarded
<1>. QED  BY <1>1, <1>2, <1>4, <1>5, <1>6, <1>7, <1>8, <1>9, <1>10, <1>11, <1>12, <1>13 DEF Next

LEMMA OneIdKept == OneId /\ [Next]_vars => OneId'
<1>. SUFFICES ASSUME OneId, [Next]_vars PROVE OneId'
  OBVIOUS
<1>0. Id("id: logging") \in Ids /\ Id("id: audit") \in Ids
  BY IdIs DEF Ids
<1>1. ASSUME headers' \cap Ids = {}, pc' \notin {"root", "auth", "audit"} PROVE OneId'
  BY <1>1 DEF OneId
<1>2. ASSUME headers' \cap Ids = {Id("id: logging")}, pc' \notin Outer, UNCHANGED req
      PROVE  OneId'
  BY <1>2 DEF OneId, Id
<1>3. ASSUME UNCHANGED headers, pc' \notin Outer \cup {"root", "auth", "audit"} PROVE OneId'
  BY <1>3 DEF OneId
<1>4. CASE Receive \/ Finish
  BY <1>1, <1>4 DEF Receive, Finish, OneId, Outer
<1>5. CASE CORS \/ Security \/ RateLimit \/ SizeLimit
  <2>1. pc \in Outer /\ pc' \notin {"root", "auth", "audit"}
    BY <1>5, StageSets DEF CORS, Security, RateLimit, SizeLimit, Proceed, Answer, Outer
  <2>2. headers' \subseteq headers \cup {"cors", "security"}
    BY <1>5 DEF CORS, Security, RateLimit, SizeLimit
  <2>3. headers' \cap Ids = {}
    BY <2>1, <2>2 DEF OneId, Ids
  <2>. QED  BY <1>1, <2>1, <2>3
<1>6. CASE Logging
  <2>1. headers \cap Ids = {} /\ pc' = "root" /\ UNCHANGED req
    BY <1>6, StageSets DEF Logging, Proceed, OneId, Outer
  <2>2. headers' \cap Ids = {Id("id: logging")}
    BY <1>0, <1>6, <2>1 DEF Logging
  <2>. QED  BY <1>2, <2>1, <2>2 DEF Outer
<1>7. CASE Root \/ APIKey
  <2>1. headers' = headers /\ headers \cap Ids = {Id("id: logging")} /\ UNCHANGED req
    BY <1>7 DEF Root, APIKey, OneId, Proceed, Written
  <2>2. pc' \notin Outer
    BY <1>7, StageSets DEF Root, APIKey, Proceed, Outer
  <2>. QED  BY <1>2, <2>1, <2>2
<1>8. CASE Audit
  <2>1. headers \cap Ids = {Id("id: logging")} /\ pc' = "handler"
    BY <1>8, StageSets DEF Audit, Proceed, OneId
  <2>2. headers' \cap Ids = {Id("id: audit")}
    BY <1>0, <1>8, <2>1 DEF Audit
  <2>. QED  BY <2>1, <2>2 DEF OneId, Outer
<1>9. CASE Handler \/ WriteBody \/ Panic \/ Completed \/ Recovery
  BY <1>3, <1>9 DEF Handler, WriteBody, Panic, Completed, Recovery, Outer
<1>10. CASE UNCHANGED vars
  BY <1>10 DEF vars, OneId, Id
<1>. QED  BY <1>4, <1>5, <1>6, <1>7, <1>8, <1>9, <1>10 DEF Next

LEMMA BodiesKept == Types /\ Bodies /\ [Next]_vars => Bodies'
<1>. SUFFICES ASSUME Types, Bodies, [Next]_vars PROVE Bodies'
  OBVIOUS
<1>1. CASE Receive
  BY <1>1 DEF Receive, Bodies, Serving
<1>2. CASE Finish
  BY <1>2 DEF Finish, Bodies, Serving
<1>3. ASSUME pc' \notin {"cors", "security", "rate", "size", "logging"} \cup Serving PROVE Bodies'
  BY <1>3 DEF Bodies
<1>4. ASSUME NEW s, Answer(s) PROVE Bodies'
  BY <1>3, <1>4 DEF Answer, Serving
<1>5. CASE CORS \/ Security \/ RateLimit
  BY <1>4, <1>5, StageSets DEF CORS, Security, RateLimit, Proceed, Bodies, Serving
<1>6. CASE SizeLimit
  <2>0. /\ Limit(size) \in (-Half)..(Half - 1) /\ Half \in Nat \ {0} /\ MaxBody \in 0..(Half - 1)
        /\ req.body \in 0..MaxBody /\ (req.declared = 0 => req.body = 0)
    BY LimitInt, RequestBody, SizesAssumption DEF Types
  <2>1. pc = "size" /\ got = [body |-> req.body, cut |-> req.cut]
    BY <1>6 DEF SizeLimit, Bodies
  <2>2. Meant \in 1..(Half - 1) => Limit(size) = Meant
    <3>1. Meant \in 1..(Half - 1) => Meant \in (-Half)..(Half - 1)
      BY SizesAssumption
    <3>. QED  BY <3>1, WrappedSmall DEF Limit, Meant
  <2>3. \/ Answer("too large") \/ Answer("server error")
        \/ Proceed /\ UNCHANGED got /\ (req.declared = 0 \/ Limit(size) <= 0)
        \/ /\ Proceed /\ got' = Read(Limit(size)) /\ ~(Limit(size) <= 0)
           /\ Read(Limit(size)).body <= Limit(size)
    BY <1>6, Zenon DEF SizeLimit
  <2>4. CASE Proceed /\ UNCHANGED got /\ (req.declared = 0 \/ Limit(size) <= 0)
    <3>1. pc' = "logging" /\ UNCHANGED <<size, req, got>>
      BY <2>1, <2>4, StageSets DEF Proceed
    <3>2. Meant \in 1..(Half - 1) => req.body <= Meant
      BY <2>0, <2>2, <2>4
    <3>. QED  BY <2>1, <3>1, <3>2 DEF Bodies, Meant, Limit
  <2>5. CASE /\ Proceed /\ got' = Read(Limit(size)) /\ ~(Limit(size) <= 0)
             /\ Read(Limit(size)).body <= Limit(size)
    <3>1. pc' = "logging" /\ UNCHANGED <<size, req>>
      BY <2>1, <2>5, StageSets DEF Proceed
    <3>2. Limit(size) \in 1..(Half - 1)
      BY <2>0, <2>5
    <3>3. Limit(size) # Half - 1 => got' = [body |-> req.body, cut |-> req.cut]
      BY <2>5, <3>2, ReadIs
    <3>4. req.body <= Limit(size)
      <4>1. CASE Limit(size) # Half - 1
        BY <2>5, <3>2, <4>1, ReadIs
      <4>2. CASE Limit(size) = Half - 1
        BY <2>0, <4>2
      <4>. QED  BY <4>1, <4>2
    <3>5. Meant \in 1..(Half - 1) => req.body <= Meant
      BY <2>2, <3>4
    <3>. QED  BY <3>1, <3>3, <3>5 DEF Bodies, Meant, Limit
  <2>. QED  BY <1>4, <2>3, <2>4, <2>5
<1>7. ASSUME UNCHANGED <<size, req, got>>, pc \in {"logging"} \cup Serving, pc' \notin
             {"cors", "security", "rate", "size"}
      PROVE  Bodies'
  BY <1>7 DEF Bodies, Meant, Limit
<1>8. CASE Logging \/ Root \/ APIKey \/ Audit
  BY <1>7, <1>8, StageSets DEF Logging, Root, APIKey, Audit, Proceed, Written, Serving
<1>9. CASE Handler \/ WriteBody \/ Panic \/ Completed \/ Recovery
  BY <1>3, <1>9 DEF Handler, WriteBody, Panic, Completed, Recovery, Serving
<1>10. CASE UNCHANGED vars
  BY <1>10 DEF vars, Bodies, Meant, Limit
<1>. QED  BY <1>1, <1>2, <1>5, <1>6, <1>8, <1>9, <1>10 DEF Next

-----------------------------------------------------------------------------
(* What is logged of the request in each layer.                            *)

Logged ==
    /\ pc # "recovery" => ~panicking
    /\ pc \in Outer => log \cap {"started", "completed", "panic recovered"} = {}
    /\ pc \in Serving \cup {"body", "return", "recovery"} =>
          "started" \in log /\ "panic recovered" \notin log
    /\ pc \in Serving \cup {"body", "return"} => "completed" \notin log
    /\ pc \in {"body", "return"} => IF rw.wrote THEN wire = rw.status ELSE wire = NoStatus
    /\ pc = "return" => rw.wrote
    /\ pc = "recovery" /\ panicking => "completed" \notin log /\ (~written => wire = NoStatus)
    /\ pc = "recovery" /\ ~panicking => "completed" \in log /\ wire = rw.status
    /\ pc = "done" => LogTellsAnswer

LEMMA LoggedKept == Types /\ Guarded /\ Logged /\ [Next]_vars => Logged'
<1>. SUFFICES ASSUME Types, Guarded, Logged, [Next]_vars PROVE Logged'
  OBVIOUS
<1>0. \A i \in {"id: logging", "id: auth"} :
          Id(i) \notin {"started", "completed", "panic recovered"}
  BY IdIs
<1>1. CASE Receive
  BY <1>1 DEF Receive, Logged, Outer, Serving
<1>2. CASE Finish
  BY <1>2 DEF Finish, Logged, Outer, Serving
<1>3. ASSUME NEW s, Answer(s), pc \in Outer,
             log' \cap {"started", "completed", "panic recovered"} = {}
      PROVE  Logged'
  BY <1>3 DEF Answer, Logged, Outer, Serving, LogTellsAnswer
<1>4. ASSUME Proceed, pc \in Outer \ {"idle", "logging"}, UNCHANGED log PROVE Logged'
  BY <1>4, StageSets DEF Proceed, Logged, Outer, Serving
<1>5. CASE CORS
  BY <1>3, <1>4, <1>5 DEF CORS, Outer, Logged
<1>6. CASE Security
  BY <1>4, <1>6 DEF Security, Outer
<1>7. CASE RateLimit
  BY <1>3, <1>4, <1>7 DEF RateLimit, Outer, Logged
<1>8. CASE SizeLimit
  <2>1. \/ Proceed /\ UNCHANGED log
        \/ Answer("too large") /\ log' = log \cup {"body too large"}
        \/ Answer("server error") /\ log' = log \cup {"failed to read"}
    BY <1>8, Zenon DEF SizeLimit
  <2>2. pc = "size"
    BY <1>8 DEF SizeLimit
  <2>3. log \cap {"started", "completed", "panic recovered"} = {}
    BY <2>2 DEF Logged, Outer
  <2>. QED  BY <1>3, <1>4, <2>1, <2>2, <2>3 DEF Outer
<1>9. CASE Logging
  <2>1. pc' = "root" /\ UNCHANGED panicking
    BY <1>9, StageSets DEF Logging, Proceed
  <2>2. "started" \in log' /\ "panic recovered" \notin log' /\ "completed" \notin log'
    BY <1>0, <1>9 DEF Logging, Logged, Outer
  <2>. QED  BY <1>9, <2>1, <2>2 DEF Logging, Logged, Outer, Serving
<1>10. ASSUME NEW s \in Statuses, Written(s), pc \in Serving,
              UNCHANGED panicking, pc' \in {"body", "return"},
              "started" \in log' /\ "panic recovered" \notin log' /\ "completed" \notin log'
       PROVE  Logged'
  <2>1. wire' = s /\ rw' = [status |-> s, wrote |-> TRUE]
    BY <1>10 DEF Written, WriteHeader, Send, Guarded
  <2>. QED  BY <1>10, <2>1 DEF Logged, Outer, Serving
<1>11. ASSUME pc \in Serving, pc' \in Serving, UNCHANGED panicking,
              "started" \in log' /\ "panic recovered" \notin log' /\ "completed" \notin log'
       PROVE  Logged'
  BY <1>11 DEF Logged, Outer, Serving
<1>12. pc \in Serving => "started" \in log /\ "panic recovered" \notin log /\ "completed" \notin log
  BY DEF Logged
<1>13. CASE Root
  <2>1. pc = "root" /\ pc \in Serving /\ UNCHANGED <<panicking, log>>
    BY <1>13 DEF Root, Serving
  <2>2. CASE pc' = "body" /\ UNCHANGED <<wire, rw>>
    BY <1>12, <2>1, <2>2 DEF Logged, Outer, Serving, Guarded
  <2>3. CASE pc' = "body" /\ Written("not allowed")
    BY <1>10, <1>12, <2>1, <2>3 DEF Statuses
  <2>4. CASE pc' = "auth"
    BY <1>11, <1>12, <2>1, <2>4 DEF Serving
  <2>. QED  BY <1>13, <2>2, <2>3, <2>4 DEF Root
<1>14. CASE APIKey
  <2>1. pc = "auth" /\ pc \in Serving /\ UNCHANGED panicking
    BY <1>14 DEF APIKey, Proceed, Serving
  <2>2. "started" \in log' /\ "panic recovered" \notin log' /\ "completed" \notin log'
    BY <1>0, <1>12, <1>14, <2>1 DEF APIKey
  <2>3. CASE Proceed
    BY <1>11, <2>1, <2>2, <2>3, StageSets DEF Proceed, Serving
  <2>4. CASE pc' = "body" /\ Written("unauthorized")
    BY <1>10, <2>1, <2>2, <2>4 DEF Statuses
  <2>. QED  BY <1>14, <2>3, <2>4 DEF APIKey
<1>15. CASE Audit
  BY <1>11, <1>12, <1>15, StageSets DEF Audit, Proceed, Serving
<1>16. CASE Handler
  <2>1. pc \in Serving /\ UNCHANGED <<panicking, log>> /\ pc' \in {"body", "return"}
    BY <1>16 DEF Handler, Serving
  <2>. QED  BY <1>10, <1>12, <1>16, <2>1 DEF Handler, Statuses
<1>17. CASE WriteBody
  <2>1. /\ pc = "body" /\ pc' = "return" /\ UNCHANGED <<log, panicking, written>>
        /\ WriteHeader("ok")
    BY <1>17 DEF WriteBody
  <2>2. rw'.wrote /\ wire' = rw'.status
    <3>1. CASE rw.wrote
      BY <2>1, <3>1 DEF WriteHeader, Logged
    <3>2. CASE ~rw.wrote
      <4>1. wire = NoStatus
        BY <2>1, <3>2 DEF Logged
      <4>2. wire' = "ok" /\ rw' = [status |-> "ok", wrote |-> TRUE]
        BY <2>1, <3>2, <4>1 DEF WriteHeader, Send
      <4>. QED  BY <4>2
    <3>. QED  BY <3>1, <3>2
  <2>. QED  BY <2>1, <2>2 DEF Logged, Outer, Serving
<1>18. CASE Panic
  <2>1. /\ pc' = "recovery" /\ panicking' = TRUE /\ UNCHANGED <<wire, log>>
        /\ written' = (wire # NoStatus) /\ pc \in Serving \cup {"body"}
    BY <1>18 DEF Panic, Serving
  <2>2. ~written' => wire' = NoStatus
    BY <2>1
  <2>3. "started" \in log' /\ "panic recovered" \notin log' /\ "completed" \notin log'
    BY <2>1 DEF Logged
  <2>. QED  BY <2>1, <2>2, <2>3 DEF Logged, Outer, Serving
<1>19. CASE Completed
  BY <1>19 DEF Completed, Logged, Outer, Serving
<1>20. CASE Recovery
  <2>0. /\ pc = "recovery" /\ pc' = "done" /\ panicking' = FALSE /\ UNCHANGED <<rw, written>>
        /\ "started" \in log /\ "panic recovered" \notin log /\ rw.status # NoStatus
    BY <1>20 DEF Recovery, Logged, Types, Statuses, NoStatus
  <2>1. CASE panicking
    <3>1. log' = log \cup {"panic recovered"} /\ Send("server error") /\ "completed" \notin log
      BY <1>20, <2>1, <2>0 DEF Recovery, Logged
    <3>2. wire' # NoStatus /\ (~written => wire' = "server error")
      BY <2>0, <2>1, <3>1 DEF Send, Logged, NoStatus
    <3>. QED  BY <2>0, <3>1, <3>2 DEF Logged, Outer, Serving, LogTellsAnswer
  <2>2. CASE ~panicking
    <3>1. UNCHANGED <<log, wire>> /\ "completed" \in log /\ wire = rw.status
      BY <1>20, <2>2, <2>0 DEF Recovery, Logged
    <3>. QED  BY <2>0, <3>1 DEF Logged, Outer, Serving, LogTellsAnswer
  <2>. QED  BY <2>1, <2>2
<1>21. CASE UNCHANGED vars
  BY <1>21 DEF vars, Logged, LogTellsAnswer
<1>. QED  BY <1>1, <1>2, <1>5, <1>6, <1>7, <1>8, <1>9, <1>13, <1>14, <1>15, <1>16, <1>17,
             <1>18, <1>19, <1>20, <1>21 DEF Next

-----------------------------------------------------------------------------

Inv == Types /\ Guarded /\ OneId /\ Bodies /\ Logged

LEMMA Invariant == Spec => []Inv
<1>1. Init => Guarded /\ OneId /\ Bodies /\ Logged
  BY DEF Init, Guarded, OneId, Bodies, Logged, Outer, Serving
<1>2. Init => Inv
  BY <1>1, TypesInit DEF Inv
<1>3. Inv /\ [Next]_vars => Inv'
  BY TypesKept, GuardedKept, OneIdKept, BodiesKept, LoggedKept DEF Inv
<1>. QED  BY <1>2, <1>3, PTL DEF Spec

\* TypeOK, with the request id that the response has once.
THEOREM TypeCorrect == Spec => []TypeOK
<1>1. Inv => TypeOK
  BY DEF Inv, Types, Stages, OneId, TypeOK
<1>. QED  BY <1>1, Invariant, PTL

\* RoutesGuarded: a route runs only for a known key and before any answer.
THEOREM GuardCorrect == Spec => []RoutesGuarded
<1>1. Inv => RoutesGuarded
  BY DEF Inv, Guarded, Serving, RoutesGuarded
<1>. QED  BY <1>1, Invariant, PTL

\* BodyWhole: with any limit but the largest integer a route gets all of the
\* body or the error it ends in.
THEOREM BodyCorrect == Spec => []BodyWhole
<1>1. Inv => BodyWhole
  BY DEF Inv, Bodies, Serving, BodyWhole
<1>. QED  BY <1>1, Invariant, PTL

\* LimitEnforced: no route gets a body longer than the limit, if the product of
\* its number and unit is an integer.
THEOREM LimitCorrect == Spec => []LimitEnforced
<1>1. Inv => LimitEnforced
  BY DEF Inv, Bodies, Serving, LimitEnforced, Meant
<1>. QED  BY <1>1, Invariant, PTL

\* LogTellsAnswer: the log ends with the status the client got, or with a panic.
THEOREM LogCorrect == Spec => []LogTellsAnswer
<1>1. Inv => LogTellsAnswer
  BY DEF Inv, Logged, LogTellsAnswer
<1>. QED  BY <1>1, Invariant, PTL
=============================================================================
