---------------------------- MODULE ProxyStartup ----------------------------
(***************************************************************************)
(* One connection to the proxy, from accept to the splice: the sniffing of *)
(* the protocol, the Postgres start-up frames, and the rewriting of the    *)
(* StartupMessage that takes the proxy token out of it.                    *)
(*                                                                         *)
(* Bytes are abstracted to units, which are what the code tells apart:     *)
(* the NUL, white space, the backslash, the quotes, "-c",                  *)
(* "tikovm_token=" and the keys.  Frames arrive in pieces.  What follows   *)
(* the token's extraction (its verification, the wake of the VM and the    *)
(* splice) is in AutoSuspend; here it succeeds or fails.                   *)
(***************************************************************************)
EXTENDS Naturals, Sequences, FiniteSets, SequencesExt

CONSTANTS
    Bodies,      \* bodies of StartupMessages that clients send
    MaxFrames    \* bound: frames of one connection

ASSUME FramesAssumption == MaxFrames \in Nat

VARIABLES
    pc,        \* where the task of the connection is
    frame,     \* the frame the client is sending
    got,       \* how much of it has arrived
    peer,      \* the client's end
    reply,     \* what the client was last sent
    message,   \* the body of the StartupMessage this client sends
    upstream,  \* the StartupMessage sent to the guest
    guest,     \* the guest's end of the spliced connection
    frames     \* frames so far (bounded)

vars == <<pc, frame, got, peer, reply, message, upstream, guest, frames>>

-----------------------------------------------------------------------------
(* Units *)

NUL == "0"
Space == " "
Backslash == "\\"
Single == "'"
Double == "\""
C == "-c"
TokenEq == "tikovm_token="

TOKEN_PARAM == <<"tikovm_token">>
OPTIONS == <<"options">>

-----------------------------------------------------------------------------
(* parse_startup and build_startup: keys and values, each ended by a NUL,  *)
(* up to an empty key.                                                     *)

(* The complete fields of a body. *)
Fields(body) ==
    LET nul == {0} \cup {i \in 1 .. Len(body) : body[i] = NUL}
        end(k) == CHOOSE i \in nul : Cardinality({j \in nul : j < i}) = k
    IN  [k \in 1 .. Cardinality(nul) - 1 |-> SubSeq(body, end(k - 1) + 1, end(k) - 1)]

KeysEnd(fields) == {k \in 1 .. Len(fields) : k % 2 = 1 /\ fields[k] = <<>>}

Malformed(body) == KeysEnd(Fields(body)) = {}

ParseStartup(body) ==
    LET fields == Fields(body)
        last == CHOOSE k \in KeysEnd(fields) : \A j \in KeysEnd(fields) : k <= j
    IN  [n \in 1 .. (last - 1) \div 2 |-> <<fields[2 * n - 1], fields[2 * n]>>]

BuildStartup(params) ==
    FlattenSeq([n \in 1 .. Len(params) |->
                   params[n][1] \o <<NUL>> \o params[n][2] \o <<NUL>>]) \o <<NUL>>

-----------------------------------------------------------------------------
(* split_opts: the words of an options value, each as it stands in the     *)
(* value (raw) and unescaped (text).                                       *)

NoWord == [raw |-> <<>>, text |-> <<>>]

Scanner == [words |-> <<>>, word |-> NoWord, esc |-> FALSE,
            squote |-> FALSE, dquote |-> FALSE]

Take(s, u) == [s EXCEPT !.word.raw = Append(@, u), !.word.text = Append(@, u),
                        !.esc = FALSE]
Mark(s, u) == [s EXCEPT !.word.raw = Append(@, u)]

EndWord(s) == IF s.word = NoWord THEN s
              ELSE [s EXCEPT !.words = Append(@, s.word), !.word = NoWord]

(* Mutant: a backslash is an ordinary unit. *)
ScanNoEscape(s, u) ==
    CASE u = Space /\ ~s.squote /\ ~s.dquote -> EndWord(s)
      [] u = Single /\ ~s.dquote -> [Mark(s, u) EXCEPT !.squote = ~@]
      [] u = Double /\ ~s.squote -> [Mark(s, u) EXCEPT !.dquote = ~@]
      [] OTHER -> Take(s, u)

Scan(s, u) ==
    CASE s.esc -> Take(s, u)
      [] ~s.esc /\ u = Space /\ ~s.squote /\ ~s.dquote -> EndWord(s)
      [] ~s.esc /\ u = Backslash /\ ~s.squote -> [Mark(s, u) EXCEPT !.esc = TRUE]
      [] ~s.esc /\ u = Single /\ ~s.dquote -> [Mark(s, u) EXCEPT !.squote = ~@]
      [] ~s.esc /\ u = Double /\ ~s.squote -> [Mark(s, u) EXCEPT !.dquote = ~@]
      [] OTHER -> Take(s, u)

(* A backslash that ends the value stands for itself.                      *)
SplitOpts(value) ==
    LET after[n \in 0 .. Len(value)] ==      \* the scanner after n units
            IF n = 0 THEN {Scanner} ELSE {Scan(s, value[n]) : s \in after[n - 1]}
        end(s) == IF s.esc THEN [s EXCEPT !.word.text = Append(@, Backslash)] ELSE s
    IN  CHOOSE words \in {EndWord(end(s)).words : s \in after[Len(value)]} : TRUE

-----------------------------------------------------------------------------
(* extract_from_options and extract_token *)

IsToken(text) == text # <<>> /\ Head(text) = TokenEq

(* "-c tikovm_token=..." in two words, or in one. *)
Apart(words, i) ==
    /\ i < Len(words) /\ words[i].text = <<C>> /\ IsToken(words[i + 1].text)
Glued(words, i) ==
    /\ words[i].text # <<>> /\ Head(words[i].text) = C
    /\ IsToken(Tail(words[i].text))

(* The words dropped.  (The loop skips both words of a pair; the second    *)
(* cannot begin a setting.)                                                *)
Dropped(words) ==
    LET W == 1 .. Len(words)
    IN  {i \in W : \/ Apart(words, i) \/ Glued(words, i)
                   \/ i > 1 /\ Apart(words, i - 1)}

(* The first one counts. *)
TokenOf(words) ==
    LET i == CHOOSE i \in Dropped(words) : \A j \in Dropped(words) : i <= j
    IN  IF Apart(words, i) THEN Tail(words[i + 1].text)
                           ELSE Tail(Tail(words[i].text))

Joined(raws) ==
    FlattenSeq([n \in 1 .. Len(raws) |-> IF n = 1 THEN raws[n] ELSE <<Space>> \o raws[n]])

Rest(words) ==
    LET kept == SelectSeq([i \in 1 .. Len(words) |-> i], LAMBDA i : i \notin Dropped(words))
    IN  Joined([n \in 1 .. Len(kept) |-> words[kept[n]].raw])

NoToken == [found |-> FALSE]
Token(value) == [found |-> TRUE, value |-> value]

(* One parameter: what is known of the token, and what is forwarded.  Of   *)
(* several tokens the last one counts.                                     *)
Extract(acc, param) ==
    LET words == SplitOpts(param[2])
        rest == Rest(words)
    IN  CASE param[1] = TOKEN_PARAM -> [acc EXCEPT !.token = Token(param[2])]
          [] param[1] = OPTIONS /\ Dropped(words) # {} ->
                [token |-> Token(TokenOf(words)),
                 forwarded |-> IF rest = <<>> THEN acc.forwarded
                               ELSE Append(acc.forwarded, <<param[1], rest>>)]
          [] OTHER -> [acc EXCEPT !.forwarded = Append(@, param)]

ExtractToken(params) ==
    LET after[n \in 0 .. Len(params)] ==
            IF n = 0 THEN {[token |-> NoToken, forwarded |-> <<>>]}
            ELSE {Extract(acc, params[n]) : acc \in after[n - 1]}
    IN  CHOOSE acc \in after[Len(params)] : TRUE

-----------------------------------------------------------------------------
(* Frames.  length: the first four bytes say 8 .. MAX_STARTUP_FRAME.       *)

Code == {"v3", "ssl", "gss", "cancel", "other"}

NoFrame == [code |-> "none", length |-> FALSE]

Frame == [code : Code, length : BOOLEAN]

LooksLikePostgres(f) == f.length /\ f.code # "other"

-----------------------------------------------------------------------------
Init ==
    /\ pc = "sniff" /\ frame = NoFrame /\ got = "none" /\ peer = "open"
    /\ reply = "none" /\ message \in Bodies /\ upstream = <<>>
    /\ guest = "none" /\ frames = 0

(* The client begins a frame, with less than the 8 bytes of its header; it *)
(* sends the rest in one or two pieces.                                    *)
ClientBegins(f) ==
    /\ peer = "open" /\ got = "none" /\ frames < MaxFrames
    /\ pc \in {"sniff", "negotiate"}
    /\ frame' = f /\ got' = "few" /\ frames' = frames + 1
    /\ UNCHANGED <<pc, peer, reply, message, upstream, guest>>

ClientSends ==
    /\ peer = "open" /\ got \in {"few", "header"}
    /\ got' \in {"header", "all"} \ {got}
    /\ UNCHANGED <<pc, frame, peer, reply, message, upstream, guest, frames>>

ClientCloses ==
    /\ peer = "open"
    /\ peer' = "closed"
    /\ UNCHANGED <<pc, frame, got, reply, message, upstream, guest, frames>>

(* sniff_prefix and the choice of the protocol.  The peek consumes nothing *)
(* and answers at once, also with less than 8 bytes: then it peeks again.  *)
Sniff ==
    /\ pc = "sniff"
    /\ \/ /\ got = "none" /\ peer = "closed"
          /\ pc' = "end"
       \/ /\ got \in {"header", "all"}
          /\ pc' = IF LooksLikePostgres(frame) THEN "negotiate" ELSE "http"
    /\ UNCHANGED <<frame, got, peer, reply, message, upstream, guest, frames>>

(* run failed: the client gets an ErrorResponse.                           *)
Fail == pc' = "end" /\ reply' = "error" /\ UNCHANGED <<message, upstream, guest>>

(* Mutant: only the length is looked at. *)
ReadFailsLengthOnly ==
    /\ pc = "negotiate"
    /\ got # "none" /\ ~frame.length
    /\ Fail
    /\ UNCHANGED <<frame, got, peer, frames>>

(* read_frame fails: the peer closed within or before a frame, or the      *)
(* length, which is known before the frame is, is implausible.             *)
ReadFails ==
    /\ pc = "negotiate"
    /\ \/ got # "all" /\ peer = "closed"
       \/ got # "none" /\ ~frame.length
    /\ Fail
    /\ UNCHANGED <<frame, got, peer, frames>>

Read(codes) ==
    /\ pc = "negotiate" /\ got = "all" /\ frame.length /\ frame.code \in codes
    /\ got' = "none" /\ frame' = NoFrame
    /\ UNCHANGED <<peer, frames>>

(* No encryption: the client goes on in plain text, if it is still there.  *)
Refuse ==
    /\ Read({"ssl", "gss"})
    /\ \/ reply' = "N" /\ UNCHANGED <<pc, message, upstream, guest>>
       \/ peer = "closed" /\ Fail

Reject == Read({"cancel", "other"}) /\ Fail

ReadStartup ==
    /\ Read({"v3"})
    /\ pc' = "startup" /\ UNCHANGED <<reply, message, upstream, guest>>

(* Without a token it is refused; with one it may still be (the token, its *)
(* VM, the guest's port).                                                  *)
Startup ==
    /\ pc = "startup"
    /\ \/ Fail
       \/ /\ ~Malformed(message)
          /\ \E e \in {ExtractToken(ParseStartup(message))} :
                e.token.found /\ upstream' = BuildStartup(e.forwarded)
          /\ pc' = "splice" /\ guest' = "open" /\ UNCHANGED <<reply, message>>
    /\ UNCHANGED <<frame, got, peer, frames>>

(* The guest's server closes its side, on its own or when it reads the end *)
(* of the client's; a guest that is frozen does neither.                   *)
GuestCloses ==
    /\ guest = "open"
    /\ guest' = "closed"
    /\ UNCHANGED <<pc, frame, got, peer, reply, message, upstream, frames>>

(* copy_bidirectional ends when both directions have ended ...             *)
SpliceEnds ==
    /\ pc = "splice" /\ peer = "closed" /\ guest = "closed"
    /\ pc' = "end"
    /\ UNCHANGED <<frame, got, peer, reply, message, upstream, guest, frames>>

(* ... or with the first error, of a side that has gone.                   *)
SpliceBreaks ==
    /\ pc = "splice" /\ "closed" \in {peer, guest}
    /\ pc' = "end"
    /\ UNCHANGED <<frame, got, peer, reply, message, upstream, guest, frames>>

(* hyper drops the request under way when the client closes.               *)
HttpEnds ==
    /\ pc = "http" /\ peer = "closed"
    /\ pc' = "end"
    /\ UNCHANGED <<frame, got, peer, reply, message, upstream, guest, frames>>

Serve ==
    \/ Sniff \/ ReadFails \/ Refuse \/ Reject \/ ReadStartup \/ Startup
    \/ SpliceEnds \/ HttpEnds

Next ==
    \/ Serve \/ SpliceBreaks
    \/ ClientSends \/ ClientCloses \/ GuestCloses
    \/ \E f \in Frame : ClientBegins(f)

(* The task is polled whenever something has arrived for it.  Nothing is   *)
(* assumed of the client or of the guest.                                  *)
Spec == Init /\ [][Next]_vars /\ WF_vars(Serve)

-----------------------------------------------------------------------------
(* Properties *)

(* The words of an options value, by position instead of by scanning: a    *)
(* unit is escaped after an odd run of backslashes and quoted after an odd *)
(* number of quotes; words are the stretches between separators.  This     *)
(* reading is right for Plain values: one kind of quotes, and no backslash *)
(* with single ones.                                                       *)
Plain(value) ==
    /\ ~({Single, Double} \subseteq ToSet(value))
    /\ ~({Single, Backslash} \subseteq ToSet(value))

Escaped(v, i) ==
    \E n \in 1 .. i - 1 : /\ n % 2 = 1
                          /\ \A k \in i - n .. i - 1 : v[k] = Backslash
                          /\ n < i - 1 => v[i - n - 1] # Backslash

IsQuote(v, i) == v[i] \in {Single, Double} /\ ~Escaped(v, i)
Quoted(v, i) == Cardinality({k \in 1 .. i - 1 : IsQuote(v, k)}) % 2 = 1
Separates(v, i) == v[i] = Space /\ ~Escaped(v, i) /\ ~Quoted(v, i)

(* What a unit stands for: quotes and a backslash before something vanish. *)
Meant(v, i) ==
    LET vanishes == \/ IsQuote(v, i)
                    \/ v[i] = Backslash /\ ~Escaped(v, i) /\ i < Len(v)
    IN  IF vanishes THEN <<>> ELSE <<v[i]>>

Words(v) ==
    LET starts == {i \in 1 .. Len(v) : ~Separates(v, i) /\ (i = 1 \/ Separates(v, i - 1))}
        stop(i) == CHOOSE j \in i .. Len(v) :
                      /\ \A k \in i .. j : ~Separates(v, k)
                      /\ j = Len(v) \/ Separates(v, j + 1)
        from == SetToSortSeq(starts, <)
    IN  [n \in 1 .. Len(from) |->
            FlattenSeq([k \in 1 .. stop(from[n]) - from[n] + 1 |->
                           Meant(v, from[n] + k - 1)])]

(* Well-formed: "-c" takes the next word as the setting, which does not    *)
(* begin with "-c" itself, and no setting of the token stands alone.       *)
Begins(words, i) == words[i] # <<>> /\ Head(words[i]) = C
Bare(words, i) == words[i] = <<C>>
Taken(words, i) == i > 1 /\ Bare(words, i - 1)

WellFormed(words) ==
    \A i \in 1 .. Len(words) :
        /\ Bare(words, i) => i < Len(words) /\ ~Begins(words, i + 1)
        /\ IsToken(words[i]) => Taken(words, i)

(* Settings, and other words as they are. *)
Setting(words, i) ==
    CASE Taken(words, i) -> <<"set", words[i]>>
      [] ~Taken(words, i) /\ Begins(words, i) -> <<"set", Tail(words[i])>>
      [] OTHER -> <<"word", words[i]>>

Settings(words) ==
    LET own == SelectSeq([i \in 1 .. Len(words) |-> i], LAMBDA i : ~Bare(words, i))
    IN  [n \in 1 .. Len(own) |-> Setting(words, own[n])]

Options(params) == SelectSeq(params, LAMBDA p : p[1] = OPTIONS)

AllWellFormed(params) ==
    \A p \in ToSet(Options(params)) : Plain(p[2]) /\ WellFormed(Words(p[2]))

AllSettings(params) ==
    LET own == Options(params)
    IN  FlattenSeq([n \in 1 .. Len(own) |-> Settings(Words(own[n][2]))])

IsTokenSetting(s) == s[1] = "set" /\ IsToken(s[2])

(* Module docs: the token is stripped from the StartupMessage in both      *)
(* forms, and the options keep every other setting: what the guest's       *)
(* postmaster reads in the frame it is sent are the client's settings, in  *)
(* their order, without those of the token, for every well-formed value    *)
(* that does not mix the two kinds of quotes, or single quotes with        *)
(* backslashes.                                                            *)
TokenStripped ==
    pc = "splice" =>
        \A sent \in {ParseStartup(message)}, seen \in {ParseStartup(upstream)} :
            AllWellFormed(sent) =>
                /\ AllSettings(seen)
                     = SelectSeq(AllSettings(sent), LAMBDA s : ~IsTokenSetting(s))
                /\ SelectSeq(seen, LAMBDA p : p[1] # OPTIONS)
                     = SelectSeq(sent, LAMBDA p : p[1] \notin {OPTIONS, TOKEN_PARAM})

(* sniff_prefix: "... or the peer goes away".  The task of a connection    *)
(* (and with it the session's part in the VM's in-flight count) ends when  *)
(* its peer has gone and, once it is spliced, the guest has closed its     *)
(* side too; except that of a peer that sent 1 to 7 bytes: the peek goes   *)
(* on returning them.                                                      *)
EndsWithPeer ==
    peer = "closed" /\ guest # "open"
        ~> pc = "end" \/ guest = "open" \/ (pc = "sniff" /\ got = "few")
=============================================================================
