\* One chat, one account: a login that breaks off, and the call after it.
CONSTANTS
    Chats = {1}
    Accounts = {1}
    Kinds = {"search", "get", "add", "clear"}
SPECIFICATION Spec
INVARIANTS NoGuestCart
