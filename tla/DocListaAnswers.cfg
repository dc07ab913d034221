CONSTANTS
  e1 = e1
  e2 = e2
  p1 = p1
  p2 = p2
  t1 = t1
  t2 = t2
  spaced = spaced
  plus = plus
  escaped = escaped
  Absent = Absent
  Senha = senha
  Workers = {w1}
  Emails <- MCEmails
  Passwords = {p1, p2}
  Tokens <- MCTokens
  Names <- MCNames
  Normal <- MCNormal
  Long = {}
  Requests <- MCAllRequests
  MaxRows = 1
SPECIFICATION Spec
INVARIANTS
  ListaAnswers
