----------------------------- MODULE ShellEscape -----------------------------
(***************************************************************************)
(* The two quoting helpers of the terminals service (escapeShellArg and    *)
(* escapeDoubleQuoted) and the way create() nests them: an init command    *)
(* `cd '<cwd>'` is typed into a Zellij tab by the argument of              *)
(* `zellij ... action write-chars "<...>"`, and when the daemon            *)
(* impersonates a Unix user that whole command is itself single-quoted    *)
(* for `sudo -n su - <user> -c '<...>'`.                                   *)
(*                                                                         *)
(* A string is a sequence of one-character strings.  The reference is      *)
(* ShellWords, a model of how a POSIX shell splits a command line into     *)
(* words and removes quotes; it reports failure when the line would        *)
(* expand ($, `), run a second command (;) or leave a quote open.          *)
(***************************************************************************)
EXTENDS Naturals, Sequences, SequencesExt

CONSTANTS
    Alphabet,   \* the characters untrusted input may contain
    MaxLen,     \* the longest input enumerated
    EnvKeys     \* names of a user's custom environment variables

SQ == "'"
DQ == "\""
BS == "\\"
BT == "backtick"   \* the backtick character (SANY reads a literal one as syntax)

ASSUME {SQ, DQ, BS, "$", BT, ";", " "} \subseteq Alphabet

(* Replace every occurrence of character c in s by the sequence rep: one  *)
(* pass of String.prototype.replace with a global regular expression.     *)
ReplaceChar(s, c, rep) ==
    FlattenSeq([i \in DOMAIN s |-> IF s[i] = c THEN rep ELSE <<s[i]>>])

(* set.ts:165-168 *)
EscapeShellArg(arg) ==
    <<SQ>> \o ReplaceChar(arg, SQ, <<SQ, BS, SQ, SQ>>) \o <<SQ>>

(* Mutant: the backslash pass runs last and doubles the escapes of the    *)
(* passes before it.                                                       *)
EscapeDoubleQuotedBackslashLast(str) ==
    LET s1 == ReplaceChar(str, DQ, <<BS, DQ>>)
        s2 == ReplaceChar(s1, "$", <<BS, "$">>)
        s3 == ReplaceChar(s2, BT, <<BS, BT>>)
    IN  ReplaceChar(s3, BS, <<BS, BS>>)

(* set.ts:175-181: backslashes first, then ", $ and ` *)
EscapeDoubleQuoted(str) ==
    LET s1 == ReplaceChar(str, BS, <<BS, BS>>)
        s2 == ReplaceChar(s1, DQ, <<BS, DQ>>)
        s3 == ReplaceChar(s2, "$", <<BS, "$">>)
    IN  ReplaceChar(s3, BT, <<BS, BT>>)

(* set.ts:368-382 with a null env file and alwaysCd: the single command   *)
(* `cd <escaped cwd>`; initCommands.join(' && ') of one command is it.     *)
(* Words the code writes literally are single tokens of the alphabet.     *)
BuildInitCommand(cwd) == <<"cd", " ">> \o EscapeShellArg(cwd)

(* set.ts:394-397 and 256: `zellij --session "<name>" action write-chars  *)
(* "<escaped script>"`; session names are agor-<short id>.                 *)
ZellijWriteChars(script) ==
    <<"zellij", " ", "--session", " ", DQ, "agor-id", DQ, " ", "action", " ",
      "write-chars", " ", DQ>> \o EscapeDoubleQuoted(script) \o <<DQ>>

(* set.ts:212-215: `sudo -n su - <user> -c <escaped command>`.             *)
SuCommand(command) ==
    <<"sudo", " ", "-n", " ", "su", " ", "-", " ", "alice", " ", "-c", " ">>
        \o EscapeShellArg(command)

(* writeEnvFile (set.ts:487-497): the keys it never exports.              *)
SkipKeys == {"PATH", "HOME", "USER", "SHELL", "PWD", "OLDPWD", "TERM", "COLORTERM"}

(* Mutant: the value is exported without escaping its single quotes.      *)
WriteEnvFileUnescaped(key, value) ==
    IF key \in SkipKeys THEN <<>>
    ELSE <<"export", " ", key, "=", SQ>> \o value \o <<SQ>>

(* writeEnvFile (set.ts:475-526) for a user with one custom variable: the *)
(* script's line for it, `export KEY='<value, ' as '\''>'`, or no line     *)
(* for a skipped key.  The shebang and comment lines run nothing.          *)
WriteEnvFile(key, value) ==
    IF key \in SkipKeys THEN <<>>
    ELSE <<"export", " ", key, "=", SQ>> \o ReplaceChar(value, SQ, <<SQ, BS, SQ, SQ>>) \o <<SQ>>

-----------------------------------------------------------------------------
(* Reference: POSIX word splitting and quote removal.  mode is "out"       *)
(* (between words), "word", "esc" (after an unquoted backslash), "sq",     *)
(* "dq" and "dqesc" (after a backslash inside double quotes).              *)
Failed(st) == [st EXCEPT !.ok = FALSE]
Put(st, m, w) == [st EXCEPT !.mode = m, !.cur = w]

(* One character of the line read in the state st.                         *)
Step(st, c) ==
    IF ~st.ok THEN st
    ELSE CASE st.mode \in {"out", "word"} ->
                IF c = " " THEN [st EXCEPT !.mode = "out", !.cur = <<>>,
                                  !.words = IF st.mode = "word"
                                            THEN Append(@, st.cur) ELSE @]
                ELSE IF c \in {"$", BT, ";"} THEN Failed(st)
                ELSE IF c = SQ THEN Put(st, "sq", st.cur)
                ELSE IF c = DQ THEN Put(st, "dq", st.cur)
                ELSE IF c = BS THEN Put(st, "esc", st.cur)
                ELSE Put(st, "word", Append(st.cur, c))
           [] st.mode = "esc" -> Put(st, "word", Append(st.cur, c))
           [] st.mode = "sq"  -> IF c = SQ THEN Put(st, "word", st.cur)
                                 ELSE Put(st, "sq", Append(st.cur, c))
           [] st.mode = "dq"  -> IF c = DQ THEN Put(st, "word", st.cur)
                                 ELSE IF c \in {"$", BT} THEN Failed(st)
                                 ELSE IF c = BS THEN Put(st, "dqesc", st.cur)
                                 ELSE Put(st, "dq", Append(st.cur, c))
           [] st.mode = "dqesc" ->
                IF c \in {"$", BT, DQ, BS} THEN Put(st, "dq", Append(st.cur, c))
                ELSE Put(st, "dq", st.cur \o <<BS, c>>)

Start == [ok |-> TRUE, mode |-> "out", cur |-> <<>>, words |-> <<>>]

(* The end of the line: a quote or a backslash left open fails.           *)
Finish(st) ==
    IF st.ok /\ st.mode \in {"out", "word"}
    THEN [ok |-> TRUE,
          words |-> IF st.mode = "word" THEN Append(st.words, st.cur) ELSE st.words]
    ELSE [ok |-> FALSE, words |-> <<>>]

-----------------------------------------------------------------------------
(* One directory travels through the three shells: the daemon's /bin/sh   *)
(* runs the sudo line, the user's login shell runs the zellij command, and *)
(* the shell in the tab reads the typed init script.  Or one value of a   *)
(* user's variable travels through the env file, which the tab's shell    *)
(* sources (stage "source").                                               *)
VARIABLES
    target,  \* "cd": raw is a worktree path; or the env variable raw is the value of
    raw,     \* the worktree directory or variable value, untrusted
    stage,   \* "daemon", "login", "tab", "done" or "error"
    line,    \* the command line the shell of this stage reads
    pos,     \* the next character of line the shell reads
    scan,    \* the shell's reading state (Step)
    words    \* the words the last shell produced

vars == <<target, raw, stage, line, pos, scan, words>>

Inputs == BoundedSeq(Alphabet, MaxLen)

Init == /\ target \in {"cd"} \cup EnvKeys
        /\ raw \in Inputs
        /\ stage = IF target = "cd" THEN "daemon" ELSE "source"
        /\ line = IF target = "cd" THEN SuCommand(ZellijWriteChars(BuildInitCommand(raw)))
                  ELSE WriteEnvFile(target, raw)
        /\ pos = 1
        /\ scan = Start
        /\ words = <<>>

(* The shell of the current stage reads one more character.               *)
Read ==
    /\ stage \in {"daemon", "login", "tab", "source"}
    /\ pos <= Len(line)
    /\ scan' = Step(scan, line[pos])
    /\ pos' = pos + 1
    /\ UNCHANGED <<target, raw, stage, line, words>>

(* The shell of stage from has read the whole line; Expect says whether   *)
(* its words have the shape the code intends, and word k is the line the  *)
(* next shell reads.                                                      *)
Parse(from, to, Expect(_), k) ==
    /\ stage = from
    /\ pos > Len(line)
    /\ LET r == Finish(scan) IN
       IF r.ok /\ Expect(r.words)
       THEN /\ stage' = to
            /\ words' = r.words
            /\ line' = IF k > 0 THEN r.words[k] ELSE line
       ELSE /\ stage' = "error"
            /\ words' = r.words
            /\ UNCHANGED line
    /\ pos' = 1
    /\ scan' = Start
    /\ UNCHANGED <<target, raw>>

IsSudo(w)   == Len(w) = 7 /\ w[5] = <<"alice">>
IsZellij(w) == Len(w) = 6 /\ w[5] = <<"write-chars">>
IsCd(w)     == Len(w) = 2 /\ w[1] = <<"cd">>
IsExport(w) == w = <<>> \/ (Len(w) = 2 /\ w[1] = <<"export">>)

Next == \/ Read
        \/ Parse("daemon", "login", IsSudo, 7)
        \/ Parse("login", "tab", IsZellij, 6)
        \/ Parse("tab", "done", IsCd, 0)
        \/ Parse("source", "done", IsExport, 0)
        \/ stage \in {"done", "error"} /\ UNCHANGED vars

Spec == Init /\ [][Next]_vars

TypeOK == /\ target \in {"cd"} \cup EnvKeys
          /\ raw \in Inputs
          /\ stage \in {"daemon", "login", "tab", "source", "done", "error"}
          /\ pos \in 1..(Len(line) + 1)

(* However many quotes, backslashes, $, backticks, spaces or semicolons a  *)
(* worktree path holds, each of the three shells sees exactly the words   *)
(* create() meant (set.ts:212-215, 256, 368-401), and the tab's shell runs *)
(* `cd` with the raw path as its only argument: nothing is expanded,      *)
(* split or executed along the way.                                       *)
CdArgumentIsLiteral ==
    target = "cd" => /\ stage # "error"
                     /\ stage = "done" => words = <<<<"cd">>, raw>>

(* Sourcing the env file (set.ts:487-503, sourced by the init command of  *)
(* 368-382) sets each of the user's variables to its literal value,       *)
(* whatever quotes, $, backticks or ; it holds, and never touches PATH,   *)
(* HOME, USER, SHELL, PWD, OLDPWD, TERM or COLORTERM.                      *)
SourcedEnvIsLiteral ==
    target # "cd" =>
        /\ stage # "error"
        /\ stage = "done" =>
              words = IF target \in SkipKeys THEN <<>>
                      ELSE <<<<"export">>, <<target, "=">> \o raw>>
=============================================================================
