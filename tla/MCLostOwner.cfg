SPECIFICATION LostSpec
CONSTANTS
  owner = owner
  friend = friend
  other = other
  Keys = {owner, friend, other}
  Founders = {owner}
  Friend = friend
  ROTATION_DELAY = 2
  ROTATION_WINDOW = 1
PROPERTIES FriendRecovers
\* A wallet whose key is lost and that has no guardian stays as it is.
CHECK_DEADLOCK FALSE
