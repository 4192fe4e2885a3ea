----------------------------- MODULE Calculator -----------------------------
(***************************************************************************)
(* echo_server.c and echo_client.c: a calculator that serves two clients,  *)
(* one after the other.  A client writes a formula and waits for an int;   *)
(* the server turns what is in message into postfix form and evaluates it  *)
(* on a stack of chars.                                                    *)
(*                                                                         *)
(* The buffer message is not terminated after read: request is the string  *)
(* it holds, the new request over the old one.  Formulas are well formed,  *)
(* of any length; a request arrives in one read.                           *)
(***************************************************************************)
EXTENDS Integers, Sequences

CONSTANTS
    Users,          \* the clients
    Trees, Height,  \* formulas and their parts, as trees; the height of each
    Formulas,       \* of each client: the formulas it may ask
    MaxAsk,         \* bound: how many formulas each client asks
    MaxUsers,       \* 2 in main
    Size,           \* of postfix and of the data of a stack: 100
    Nil             \* no client, no formula, no answer, no result

-----------------------------------------------------------------------------
\* Characters are their codes.
Zero == 48
Digits == Zero..(Zero + 9)
Plus == 43
Minus == 45
Times == 42
Over == 47
Open == 40
Close == 41
Newline == 10
Operators == {Plus, Minus, Times, Over}
Sums == {Plus, Minus}
Products == {Times, Over}

\* A formula is a digit <<d>>, or <<op, left, right>>.
Leaf(t) == t = <<t[1]>> /\ t[1] \in 0..9
Node(t) ==
    /\ t = <<t[1], t[2], t[3]>> /\ t[1] \in Operators
    /\ \A part \in {t[2], t[3]} : part \in Trees /\ Height[part] < Height[t]

ASSUME CalcAssumption ==
    /\ Height \in [Trees -> Nat] /\ \A t \in Trees : Leaf(t) \/ Node(t)
    /\ \A c \in Users : Formulas[c] \subseteq Trees /\ MaxAsk[c] \in Nat
    /\ MaxUsers \in Nat \ {0} /\ Size \in Nat /\ Nil \notin Int \cup Trees \cup Users

VARIABLES
    conn,           \* where each client's connection stands
    asks, asked,    \* of each client: formulas asked so far, the last of them
    answer,         \* what the server has answered to it
    serving, served,\* cli_sockfd as the client it belongs to; clients accepted
    spc,            \* the server runs, has left its loop, has called exit, was
                    \* killed by SIGPIPE, or is in an undefined state
    request,        \* the string in message
    exact           \* ghost: the last request covered all of that string

calcVars == <<conn, asks, asked, answer, serving, served, spc, request, exact>>

-----------------------------------------------------------------------------
\* As it is typed, a formula has the parentheses it needs.
Bracketed(t, text, weaker) ==
    IF Len(t) = 3 /\ t[1] \in weaker THEN <<Open>> \o text \o <<Close>> ELSE text
Text[t \in Trees] ==
    IF Len(t) = 1 THEN <<Zero + t[1]>>
    ELSE Bracketed(t[2], Text[t[2]], IF t[1] \in Sums THEN {} ELSE Sums) \o <<t[1]>>
         \o Bracketed(t[3], Text[t[3]], IF t[1] \in Sums THEN Sums ELSE Operators)

\* Division of C, towards zero.
Quotient(a, b) ==
    LET abs(n) == IF n < 0 THEN -n ELSE n
        q == abs(a) \div abs(b)
    IN  IF (a < 0) = (b < 0) THEN q ELSE -q

\* A signed char holds v modulo 256.
Char(v) == ((v + 128) % 256) - 128
Chars == -128..127

Apply(op, a, b) ==
    CASE op = Plus  -> a + b
      [] op = Minus -> a - b
      [] op = Times -> a * b
      [] op = Over  -> Quotient(a, b)

\* The reference: the value of a formula, Nil if it divides by zero; and the same
\* with every result kept in a char.
Combined(op, a, b) ==
    IF Nil \in {a, b} \/ (op = Over /\ b = 0) THEN Nil ELSE Apply(op, a, b)
Value[t \in Trees] ==
    IF Len(t) = 1 THEN t[1] ELSE Combined(t[1], Value[t[2]], Value[t[3]])

Narrowed(v) == IF v = Nil THEN Nil ELSE Char(v)
CharValue[t \in Trees] ==
    IF Len(t) = 1 THEN t[1] ELSE Narrowed(Combined(t[1], CharValue[t[2]], CharValue[t[3]]))

\* All results on the way fit into a char.
Parts[t \in Trees] ==
    {t} \cup IF Len(t) = 1 THEN {} ELSE Parts[t[2]] \cup Parts[t[3]]
Fits(t) == \A part \in Parts[t] : Value[part] \in Chars

-----------------------------------------------------------------------------
\* Variant of Pops, used to show that AnswersRight can fail: + and - pop nothing
\* but * and /.
PopsHigher(top, c) == top \in Products

-----------------------------------------------------------------------------
\* Does an arriving operator c pop the operator on top of the stack?
Pops(top, c) == top # Open /\ (c \in Sums \/ top \in Products)

\* How much of the stack stays when an arriving c has popped what it pops; and
\* that, top first.
Stops(top, c) == IF c = Close THEN top = Open ELSE ~Pops(top, c)
Stays(stack, c) ==
    CHOOSE n \in 0..Len(stack) :
        /\ n > 0 => Stops(stack[n], c)
        /\ \A k \in (n + 1)..Len(stack) : ~Stops(stack[k], c)
Popped(stack, n) == [k \in 1..(Len(stack) - n) |-> stack[Len(stack) + 1 - k]]

\* What one character of the infix form does to what is there of the postfix form
\* and to the stack.  stray: a parenthesis closed on an empty stack.
Conversions == [post : Seq(Int), stack : Seq(Int), stray : BOOLEAN]
InfixStep(c) == [s \in Conversions |->
    LET n == Stays(s.stack, c)
        post == s.post \o Popped(s.stack, n)
    IN  CASE c \in Digits    -> [s EXCEPT !.post = Append(@, c)]
          [] c \in Operators -> [s EXCEPT !.post = post,
                                          !.stack = Append(SubSeq(@, 1, n), c)]
          [] c = Open        -> [s EXCEPT !.stack = Append(@, c)]
          [] c = Close       -> [post |-> post, stack |-> SubSeq(s.stack, 1, n - 1),
                                 stray |-> s.stray \/ n = 0]
          [] OTHER           -> s]

\* The conversion of a string: what is there before the stack is emptied.
infixToPostfix[infix \in Seq(Int)] ==
    LET after[i \in 0..Len(infix)] ==
            IF i = 0 THEN [post |-> <<>>, stack |-> <<>>, stray |-> FALSE]
            ELSE InfixStep(infix[i])[after[i - 1]]
    IN  after[Len(infix)]

\* The exit for want of operands, and the operation on the upper two.
TooFew(stack) == Len(stack) < 2
Result(op, stack) == Apply(op, stack[Len(stack) - 1], stack[Len(stack)])

\* What one character of the postfix form does to the stack, which is <<Nil>> after
\* an exit.
PostfixStep(c) == [stack \in Seq(Int \cup {Nil}) |->
    IF stack = <<Nil>> THEN stack
    ELSE CASE c \in Digits    -> Append(stack, c - Zero)
           [] c \in Operators ->
                 IF TooFew(stack) \/ (c = Over /\ stack[Len(stack)] = 0) THEN <<Nil>>
                 ELSE Append(SubSeq(stack, 1, Len(stack) - 2), Char(Result(c, stack)))
           [] OTHER           -> stack]

\* The result, or Nil for exit(1).
evaluatePostfix[postfix \in Seq(Int)] ==
    LET after[i \in 0..Len(postfix)] ==
            IF i = 0 THEN <<>> ELSE PostfixStep(postfix[i])[after[i - 1]]
        stack == after[Len(postfix)]
    IN  IF Len(stack) = 1 THEN stack[1] ELSE Nil

\* Is something written behind postfix, its terminator included, or behind the
\* stack of operators, which takes more than Size characters?  The stack of
\* numbers is never longer than postfix.
Overruns[str \in Seq(Int)] ==
    \/ Len(infixToPostfix[str].post) + Len(infixToPostfix[str].stack) >= Size
    \/ \E i \in (Size + 1)..Len(str) : Len(infixToPostfix[SubSeq(str, 1, i)].stack) > Size

\* What a request that overruns nothing may lead to.  On a stray parenthesis the
\* byte below the stack is read: if it happens to be an opening one the next
\* operator is lost, and with it the balance of operators and operands.
Outcomes[str \in Seq(Int)] ==
    LET s == infixToPostfix[str]
    IN  {evaluatePostfix[s.post \o Popped(s.stack, 0)]} \cup (IF s.stray THEN {Nil} ELSE {})

-----------------------------------------------------------------------------
\* The buffer of main is not initialised: it may hold anything.
CalcInit ==
    /\ conn = [c \in Users |-> "none"]
    /\ asks = [c \in Users |-> 0] /\ asked = [c \in Users |-> Nil]
    /\ answer = [c \in Users |-> Nil]
    /\ serving = Nil /\ served = 0 /\ spc = "run"
    /\ request \in {<<>>, <<Zero + 7, Zero + 7>>} /\ exact = TRUE

Connect(c) ==
    /\ spc = "run" /\ conn[c] = "none"
    /\ conn' = [conn EXCEPT ![c] = "backlog"]
    /\ UNCHANGED <<asks, asked, answer, serving, served, spc, request, exact>>

\* The client reads what the user types and writes it, once it has the answer to
\* the formula before.
Ask(c) ==
    /\ conn[c] \in {"backlog", "open"} /\ asks[c] < MaxAsk[c]
    /\ asked[c] = Nil \/ answer[c] # Nil
    /\ \E t \in Formulas[c] : asked' = [asked EXCEPT ![c] = t]
    /\ asks' = [asks EXCEPT ![c] = @ + 1] /\ answer' = [answer EXCEPT ![c] = Nil]
    /\ UNCHANGED <<conn, serving, served, spc, request, exact>>

\* The user types q; or the client is interrupted with an answer unread or yet to
\* come, which resets the connection.
Leave(c) ==
    /\ conn[c] \in {"backlog", "open"}
    /\ \/ (asked[c] = Nil \/ answer[c] # Nil) /\ conn' = [conn EXCEPT ![c] = "fin"]
       \/ asked[c] # Nil /\ conn' = [conn EXCEPT ![c] = "reset"]
    /\ UNCHANGED <<asks, asked, answer, serving, served, spc, request, exact>>

\* The loop of main is over after n clients.
ServedAll(n) == n = MaxUsers

Accept ==
    /\ spc = "run" /\ serving = Nil
    /\ \E c \in Users :
          /\ conn[c] \in {"backlog", "fin", "reset"}
          /\ conn' = [conn EXCEPT ![c] = IF @ = "backlog" THEN "open" ELSE @]
          /\ serving' = c
    /\ served' = served + 1
    /\ UNCHANGED <<asks, asked, answer, spc, request, exact>>

\* A request of c has come and read returns.
Requested(c) == asked[c] # Nil /\ answer[c] = Nil

\* read returns a request; it is converted, evaluated and answered, or exit.
Answer ==
    /\ spc = "run" /\ serving # Nil
    /\ Requested(serving)
    /\ LET text == Append(Text[asked[serving]], Newline)
           str == text \o SubSeq(request, Len(text) + 1, Len(request))
       IN  /\ request' = str /\ exact' = (str = text)
           /\ IF Overruns[str] THEN spc' = "undefined" /\ UNCHANGED answer
              ELSE \E result \in Outcomes[str] :
                 IF result = Nil THEN spc' = "exited" /\ UNCHANGED answer
                 ELSE answer' = [answer EXCEPT ![serving] = result] /\ UNCHANGED spc
    /\ UNCHANGED <<conn, asks, asked, serving, served>>

\* read returns 0: close, and the next client.
EndClient ==
    /\ spc = "run" /\ serving # Nil /\ conn[serving] = "fin"
    /\ conn' = [conn EXCEPT ![serving] = "closed"]
    /\ serving' = Nil
    /\ spc' = IF ServedAll(served) THEN "left" ELSE "run"
    /\ UNCHANGED <<asks, asked, answer, served, request, exact>>

\* read returns -1, which is not 0: what is in the buffer is evaluated again and
\* the answer written to a reset connection, which kills the server.
Reset ==
    /\ spc = "run" /\ serving # Nil
    /\ conn[serving] = "reset" /\ answer[serving] # Nil
    /\ \E result \in Outcomes[request] :
          spc' = IF Overruns[request] THEN "undefined"
                 ELSE IF result = Nil THEN "exited" ELSE "killed"
    /\ UNCHANGED <<conn, asks, asked, answer, serving, served, request, exact>>

CalcServer == Accept \/ Answer \/ EndClient \/ Reset
CalcNext == CalcServer \/ \E c \in Users : Connect(c) \/ Ask(c) \/ Leave(c)

CalcSpec == CalcInit /\ [][CalcNext]_calcVars

-----------------------------------------------------------------------------
CalcTyped ==
    /\ conn \in [Users -> {"none", "backlog", "open", "fin", "reset", "closed"}]
    /\ \A c \in Users : asks[c] \in 0..MaxAsk[c] /\ asked[c] \in Formulas[c] \cup {Nil}
    /\ answer \in [Users -> Chars \cup {Nil}]
    /\ serving \in Users \cup {Nil} /\ served \in 0..MaxUsers
    /\ spc \in {"run", "left", "exited", "killed", "undefined"}

\* The answer is the value of the formula, if no longer string was in the buffer
\* before and no result on the way leaves the range of a char.
AnswersRight ==
    \A c \in Users : answer[c] # Nil /\ c = serving /\ exact /\ Fits(asked[c]) =>
        answer[c] = Value[asked[c]]

\* Without an old tail, the server ends itself on a request only if the formula
\* divides by zero, as chars go.
ExitJustified ==
    spc = "exited" /\ conn[serving] # "reset" /\ exact =>
        CharValue[asked[serving]] = Nil

\* Without an old tail, the arrays are overrun only by a formula that would not fit
\* into them as it is typed.
OverrunJustified ==
    spc = "undefined" /\ conn[serving] # "reset" /\ exact =>
        Len(Append(Text[asked[serving]], Newline)) >= Size

\* An answer is the value of the formula, the server ends itself on a request only
\* for a division by zero, and leaves its arrays only for a formula too long.
CalculatorRight == CalcTyped /\ AnswersRight /\ ExitJustified /\ OverrunJustified
=============================================================================
