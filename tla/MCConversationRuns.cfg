SPECIFICATION Spec
CONSTANTS
  Objects = {o1, o2}
  Users = {u1}
  Notices = {n1}
  Answers = {a1, a2}
  NoObject = NoObject
INVARIANT OneRunPerConversation
