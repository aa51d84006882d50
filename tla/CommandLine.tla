----------------------------- MODULE CommandLine -----------------------------
(***************************************************************************)
(* The publisher's command line: which ones setup_parser accepts, and what *)
(* the program makes of the options it is given and not given.             *)
(*                                                                         *)
(* An argument's text is a number, an address, a file name, a mode, or a   *)
(* Word, which is none of these.                                           *)
(***************************************************************************)
EXTENDS Integers, Sequences

CONSTANTS
  IPv4, IPv6,   \* texts that ip_address takes
  FileName,
  Payload,      \* elements of the JSON lists
  Content,      \* what is in each file
  NoFile,       \* content of a file that does not exist
  NotJson,      \* content of a file that json.load refuses
  NotGiven,     \* an option that is not on the command line; None in Python
  Word

ASSUME AddressAssumption == "0.0.0.0" \in IPv4 /\ NotGiven \notin IPv4 \cup IPv6
ASSUME FileAssumption ==
  /\ "sample_payloads.json" \in FileName /\ NotGiven \notin FileName
  /\ Content \in [FileName -> Seq(Payload) \cup {NoFile, NotJson}]
  /\ NoFile \notin Seq(Payload) /\ NotJson \notin Seq(Payload)
ASSUME TextAssumption == NotGiven \notin Int /\ Word \notin Int

Mode == {"all_once", "manual", "random"}

\* What may be written after an option, or for one of the two positionals.
Number == Int \cup {NotGiven, Word}
Address == IPv4 \cup IPv6 \cup {NotGiven, Word}

CommandLine == [input_file : FileName \cup {NotGiven},
                server_ip : Address, server_port : Number,
                source_address : Address, source_port : Number,
                mode : Mode \cup {NotGiven, Word},
                count : Number, delay : Number]

-----------------------------------------------------------------------------
MinValue == 1024
MaxValue == 65535

\* unprivileged_port_type returns a port.
UnprivilegedPort(text) == text \in MinValue .. MaxValue

\* The value of an option, or its default.
Given(text, default) == IF text = NotGiven THEN default ELSE text

File(given) == Content[Given(given.input_file, "sample_payloads.json")]

\* parse_args returns; otherwise it prints the usage and ends the process.
\* The default of --source-port is a number and is not checked.
Accepted(given) ==
  /\ File(given) \notin {NoFile, NotJson}
  /\ given.server_ip \in IPv4 \cup IPv6
  /\ UnprivilegedPort(given.server_port)
  /\ given.source_address \in IPv4 \cup IPv6 \cup {NotGiven}
  /\ given.source_port = NotGiven \/ UnprivilegedPort(given.source_port)
  /\ given.mode \in Mode \cup {NotGiven}
  /\ given.count \in Int \cup {NotGiven}
  /\ given.delay \in Int \cup {NotGiven}

\* parsed_args.
Parsed(given) ==
  [input_file     |-> File(given),
   server_ip      |-> given.server_ip,
   server_port    |-> given.server_port,
   source_address |-> Given(given.source_address, "0.0.0.0"),
   source_port    |-> Given(given.source_port, 0),
   mode           |-> Given(given.mode, "all_once"),
   count          |-> given.count,
   delay          |-> Given(given.delay, 0)]
==============================================================================
