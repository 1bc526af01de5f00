------------------------------ MODULE ValidPtb ------------------------------
(***************************************************************************)
(* The transaction a client asks a key server to evaluate                  *)
(* (crates/key-server/src/valid_ptb.rs) and the staleness check the server *)
(* puts in front of it (seal_package.rs).                                  *)
(*                                                                         *)
(* A transaction is a list of inputs and a list of commands whose          *)
(* arguments are indices into the inputs.  The client builds it step by    *)
(* step; the operators are what the server computes from it.  An input is  *)
(* a key id (pure bytes that decode to one), "clock", or "other": pure     *)
(* bytes that do not, or another object.  The server adds the inputs "now" *)
(* and "allowed".                                                          *)
(***************************************************************************)
EXTENDS Integers, Sequences, FiniteSets, SequencesExt

CONSTANTS
  MAX_COMMANDS,  \* 100 in the code
  MaxInputs,     \* bound on the client's inputs
  MaxArgs,       \* bound on the arguments of a command
  MaxIndex,      \* the largest index an argument can hold: u16::MAX in the code
  KeyId,         \* inner key ids: byte vectors
  Package,
  Error          \* the result of a function that fails

ASSUME Bounds == MAX_COMMANDS \in Nat \ {0} /\ MaxIndex \in Nat

Function == {"seal_approve", "other"}
ClientInput == KeyId \cup {"other", "clock"}

\* An argument is an input's index; -1 stands for a result or the gas coin.
Argument == -1..(MaxInputs - 1)

MoveCall == [kind : {"MoveCall"}, package : Package, function : Function,
             arguments : UNION {[1..n -> Argument] : n \in 0..MaxArgs}]
Other == [kind |-> "Other"]
Command == MoveCall \cup {Other}

VARIABLE ptb   \* [inputs, commands] as decoded from the request

-----------------------------------------------------------------------------
\* Indices count from zero.
Input(p, i) == IF i \in 0..(Len(p.inputs) - 1) THEN p.inputs[i + 1] ELSE Error

\* The id a command asks for: its first argument, a pure input that decodes.
get_key_id(p, cmd) ==
  IF cmd.arguments # <<>> /\ cmd.arguments[1] # -1 /\ Input(p, cmd.arguments[1]) \in KeyId
  THEN Input(p, cmd.arguments[1])
  ELSE Error

CommandOk(p, cmd) ==
  /\ cmd.kind = "MoveCall"
  /\ \A k \in DOMAIN cmd.arguments : cmd.arguments[k] # -1
  /\ get_key_id(p, cmd) # Error
  /\ cmd.function = "seal_approve"
  /\ cmd.package = p.commands[1].package

try_from_FirstOnly(p) ==
  /\ Len(p.commands) <= MAX_COMMANDS
  /\ p.inputs # <<>>
  /\ p.commands # <<>>
  /\ \A k \in DOMAIN p.commands : p.commands[k].kind = "MoveCall"
  /\ CommandOk(p, p.commands[1])

\* The restrictions on a transaction the server evaluates.
try_from(p) ==
  /\ Len(p.commands) <= MAX_COMMANDS
  /\ p.inputs # <<>>
  /\ p.commands # <<>>
  /\ p.commands[1].kind = "MoveCall"
  /\ \A k \in DOMAIN p.commands : CommandOk(p, p.commands[k])

\* Panics ("checked above", unreachable!) show as Error.
inner_ids(p) ==
  [k \in DOMAIN p.commands |->
     IF p.commands[k].kind = "MoveCall" THEN get_key_id(p, p.commands[k]) ELSE Error]

pkg_id(p) == IF p.commands[1].kind = "MoveCall" THEN p.commands[1].package ELSE Error

full_ids(p, first_pkg_id) ==
  [k \in DOMAIN p.commands |-> <<first_pkg_id, inner_ids(p)[k]>>]

try_argument_from_input_index_Truncating(i) == i % (MaxIndex + 1)

try_argument_from_input_index(i) == IF i <= MaxIndex THEN i ELSE Error

staleness_check(now, allowed, clock) ==
  [kind |-> "MoveCall", package |-> "seal", function |-> "check_staleness",
   arguments |-> <<now, allowed, clock>>]

\* Two inputs are appended, and the clock unless the client has it; the check goes first.
add_staleness_check_to_ptb(p) ==
  LET two == p.inputs \o <<"now", "allowed">>
      n == Len(p.inputs)
      has_clock == \E k \in DOMAIN two : two[k] = "clock"
      inputs == IF has_clock THEN two ELSE Append(two, "clock")
      at == IF has_clock THEN SelectInSeq(two, LAMBDA x : x = "clock") - 1 ELSE n + 2
      args == <<try_argument_from_input_index(n), try_argument_from_input_index(n + 1),
                try_argument_from_input_index(at)>>
  IN  IF Error \in Range(args) THEN Error
      ELSE [inputs |-> inputs,
            commands |-> <<staleness_check(args[1], args[2], args[3])>> \o p.commands]

-----------------------------------------------------------------------------
\* The client.
AddInput ==
  /\ Len(ptb.inputs) < MaxInputs
  /\ ptb.commands = <<>>
  /\ \E x \in ClientInput : ptb' = [ptb EXCEPT !.inputs = Append(@, x)]

\* Transactions beyond the limit repeat one command.
AddCommand ==
  \E c \in Command :
    /\ \/ Len(ptb.commands) < MAX_COMMANDS
       \/ Len(ptb.commands) = MAX_COMMANDS /\ Range(ptb.commands) = {c}
    /\ ptb' = [ptb EXCEPT !.commands = Append(@, c)]

-----------------------------------------------------------------------------
\* The simulated transaction is the client's, behind a staleness check that reads the
\* server's time, the allowed staleness and the clock: an index past the limit is an error,
\* never another input.
SimulatesWhatWasSigned ==
  LET sim == add_staleness_check_to_ptb(ptb)
  IN  try_from(ptb) /\ sim # Error =>
        /\ Tail(sim.commands) = ptb.commands
        /\ [k \in 1..3 |-> Input(sim, sim.commands[1].arguments[k])]
             = <<"now", "allowed", "clock">>
        /\ \A c \in Range(ptb.commands) : \A a \in Range(c.arguments) :
             Input(ptb, a) # Error => Input(sim, a) = Input(ptb, a)

=============================================================================
